---- MODULE Spec2Model ----
(***************************************************************************)
(* EcoGuard: the offline finding store (DatabaseService.js), the in-memory *)
(* species catalogue of GemmaService.js, and the screens that call them.   *)
(*                                                                         *)
(* Reals are scaled to integers: confidence, biodiversity_score,           *)
(* overall_health and biodiversity_index are in hundredths (87 is 0.87).   *)
(* CURRENT_TIMESTAMP has one-second resolution: `now` counts seconds.      *)
(* Left out: the columns updated_at and species.created_at, which no query  *)
(* of the repository reads, and the free-text columns that are copied      *)
(* verbatim and never inspected (description, habitat, notes, audio_uri of *)
(* a discovery, recommendations, detected_sounds, detected_species,        *)
(* strengths, image_urls, audio_patterns).                                 *)
(***************************************************************************)
EXTENDS Integers, Sequences, FiniteSets, TLC

VARIABLES
    dbOpen,                 \* DatabaseService.db # null (and isInitialized)
    gemmaInitialized,       \* GemmaService.isInitialized
    speciesDatabase,        \* GemmaService.speciesDatabase (Map id -> species)
    now,                    \* the wall clock, in seconds
    discoveries,            \* table discoveries, in rowid order
    audio_analysis,         \* table audio_analysis, in rowid order
    ecosystem_assessments,  \* table ecosystem_assessments, in rowid order
    conservation_actions,   \* table conservation_actions, in rowid order
    species,                \* table species: id -> row
    user_preferences,       \* table user_preferences: a set of rows (key, value)
    sqlite_sequence,        \* AUTOINCREMENT counters, one per finding table
    txQueue,                \* transactions handed to db.transaction and not yet run
    last,                   \* the outcome of the call that settled last
    lastSavedId,            \* history: id the last resolved saveDiscovery returned (0: none)
    completed,              \* history: the saves that resolved (table, id, data, time)
    written,                \* history: key -> the value setUserPreference wrote last
    gemmaModel,             \* GemmaService.model # null
    camera,                 \* CameraScreen: its React state
    audio,                  \* AudioScreen: its React state
    threads,                \* the async handlers in flight, each at its await
    trace,                  \* history: the stage events of the requests, in order
    requests                \* history: how many handlers were started

vars == << dbOpen, gemmaInitialized, speciesDatabase, now, discoveries,
           audio_analysis, ecosystem_assessments, conservation_actions,
           species, user_preferences, sqlite_sequence, txQueue, last,
           lastSavedId, completed, written, gemmaModel, camera, audio,
           threads, trace, requests >>

\* the screens and the handlers they started
screenVars == << camera, audio, threads, trace, requests >>

dbVars == << discoveries, audio_analysis, ecosystem_assessments,
             conservation_actions, species, user_preferences, sqlite_sequence >>

(***************************************************************************)
(* Bounds of the model.                                                    *)
(***************************************************************************)
MaxFindings == 2    \* rows over the three finding tables together
MaxClock == 1       \* the clock stops advancing here
MaxQueue == 2       \* transactions in flight at once

(***************************************************************************)
(* Values.                                                                 *)
(***************************************************************************)
NULL == "NULL"              \* SQL NULL / JS undefined, text columns
NullReal == 0 - 9999        \* SQL NULL / JS undefined, numeric columns
JsNull == [present |-> FALSE]           \* JS null where an object is expected
NullLocation == JsNull                  \* `location: null`
Void == [op |-> "void"]                 \* a call that settles with no value

Location(lat, lng, name) ==
    [present |-> TRUE, latitude |-> lat, longitude |-> lng, name |-> name]

Min(a, b) == IF a <= b THEN a ELSE b

\* discoveryData.location?.latitude and its two siblings
LocationLat(loc) == IF loc.present THEN loc.latitude ELSE NullReal
LocationLng(loc) == IF loc.present THEN loc.longitude ELSE NullReal
LocationName(loc) == IF loc.present THEN loc.name ELSE NULL

(***************************************************************************)
(* The two catalogues.                                                     *)
(***************************************************************************)
\* DatabaseService.insertInitialData: the rows seeded into table species
InitialSpecies ==
    << [id |-> "oak_tree", name |-> "Oak Tree", scientific_name |-> "Quercus",
        category |-> "tree", conservation_status |-> "Least Concern"],
       [id |-> "american_robin", name |-> "American Robin",
        scientific_name |-> "Turdus migratorius",
        category |-> "bird", conservation_status |-> "Least Concern"],
       [id |-> "monarch_butterfly", name |-> "Monarch Butterfly",
        scientific_name |-> "Danaus plexippus",
        category |-> "insect", conservation_status |-> "Endangered"],
       [id |-> "eastern_bluebird", name |-> "Eastern Bluebird",
        scientific_name |-> "Sialia sialis",
        category |-> "bird", conservation_status |-> "Least Concern"],
       [id |-> "white_pine", name |-> "Eastern White Pine",
        scientific_name |-> "Pinus strobus",
        category |-> "tree", conservation_status |-> "Least Concern"] >>

\* DatabaseService.insertInitialData: the default user preferences
defaultPreferences ==
    << << "language", "en" >>,
       << "notifications_enabled", "true" >>,
       << "location_sharing", "true" >>,
       << "offline_mode", "true" >>,
       << "conservation_reminders", "true" >> >>

\* GemmaService.loadConservationData: the in-memory species of the pipeline
speciesData ==
    << [id |-> "oak_tree", name |-> "Oak Tree", scientificName |-> "Quercus",
        category |-> "tree", conservationStatus |-> "Least Concern",
        threats |-> << "Deforestation", "Climate change", "Disease" >>],
       [id |-> "robin", name |-> "American Robin",
        scientificName |-> "Turdus migratorius",
        category |-> "bird", conservationStatus |-> "Least Concern",
        threats |-> << "Pesticide use", "Habitat loss", "Window collisions" >>],
       [id |-> "monarch_butterfly", name |-> "Monarch Butterfly",
        scientificName |-> "Danaus plexippus",
        category |-> "insect", conservationStatus |-> "Endangered",
        threats |-> << "Habitat destruction", "Pesticides", "Climate change" >>] >>

SeededKeys == { defaultPreferences[i][1] : i \in 1..Len(defaultPreferences) }

SeededValue(k) ==
    LET i == CHOOSE j \in 1..Len(defaultPreferences) : defaultPreferences[j][1] = k
    IN  defaultPreferences[i][2]

(***************************************************************************)
(* Inputs.                                                                 *)
(***************************************************************************)
\* Math.random(), in hundredths (a draw r stands for r / 100): the two draws
\* of one identification, the first picks the species, the second the confidence
RandomDraws == { << 0, 50 >>, << 50, 99 >> }

LocUrban == Location(1, 1, "Urban Park")
LocPartial == Location(1, NullReal, NULL)

\* what a caller may hand to saveDiscovery
DiscoveryInputs ==
    { \* a well-formed discovery of a catalogued species
      [species_id |-> "oak_tree", species_name |-> "Oak Tree",
       scientific_name |-> "Quercus", category |-> "tree", confidence |-> 90,
       image_uri |-> "img1", location |-> LocUrban,
       conservation_status |-> "Least Concern", threats |-> << "Deforestation" >>],
      \* an uncatalogued species, a confidence of 1.5, a location without longitude
      [species_id |-> "dodo", species_name |-> "Dodo",
       scientific_name |-> NULL, category |-> "bird", confidence |-> 150,
       image_uri |-> "img2", location |-> LocPartial,
       conservation_status |-> NULL, threats |-> << >>],
      \* no species_id at all
      [species_id |-> NULL, species_name |-> "Unknown",
       scientific_name |-> NULL, category |-> "other", confidence |-> 50,
       image_uri |-> "img3", location |-> NullLocation,
       conservation_status |-> NULL, threats |-> << >>] }

\* what a caller may hand to saveAudioAnalysis
AudioInputs ==
    { [audio_uri |-> "rec1", duration |-> 45, biodiversity_score |-> 75,
       environmental_health |-> "Good", location |-> LocUrban],
      [audio_uri |-> "rec2", duration |-> 3, biodiversity_score |-> 120,
       environmental_health |-> "Good", location |-> NullLocation],
      [audio_uri |-> NULL, duration |-> 10, biodiversity_score |-> 50,
       environmental_health |-> "Fair", location |-> NullLocation] }

\* what a caller may hand to saveEcosystemAssessment
AssessmentInputs ==
    { [image_uri |-> "img1", audio_uri |-> "rec1", overall_health |-> 80,
       biodiversity_index |-> 72, location |-> LocUrban],
      [image_uri |-> "img2", audio_uri |-> NULL, overall_health |-> 0 - 20,
       biodiversity_index |-> 130, location |-> NullLocation] }

Limits == { 1, 2 }
Offsets == { 0, 1 }

\* keys and values the settings screen writes and reads
WrittenKeys == { "notifications_enabled", "auto_save_discoveries" }
ReadKeys == WrittenKeys \cup { "language", "high_accuracy_mode" }
PrefValues == { "true", "false" }

(***************************************************************************)
(* Table discoveries.                                                      *)
(***************************************************************************)
FindingTables ==
    { "discoveries", "audio_analysis", "ecosystem_assessments", "conservation_actions" }

TotalRows ==
    Len(discoveries) + Len(audio_analysis) + Len(ecosystem_assessments)
        + Len(conservation_actions)

\* history: a save into `table` resolved with `id` for the finding `data`
Completed(table, id, data) == [table |-> table, id |-> id, data |-> data, at |-> now]

\* history: the number of saves into `table` that resolved
SavedCount(table) == Cardinality({ c \in completed : c.table = table })

\* INTEGER PRIMARY KEY AUTOINCREMENT: one more than the largest id ever given
NextRowId(table) == sqlite_sequence[table] + 1

\* mutant: the row takes the place of the newest row (INSERT OR REPLACE on a reused id)
InsertRowOverNewest(rows, row) ==
    IF rows = << >> THEN << row >> ELSE [rows EXCEPT ![Len(rows)] = row]

\* INSERT INTO <table>: the row is added, the rows there stay as they are
InsertRow(rows, row) == Append(rows, row)

\* the columns declared NOT NULL in CREATE TABLE discoveries
DiscoveryNotNullOk(d) ==
    /\ d.species_id # NULL
    /\ d.species_name # NULL
    /\ d.category # NULL
    /\ d.confidence # NullReal

\* mutant: the INSERT writes the NOT NULL columns and leaves the others to a
\* later statement
DiscoveryRowRequiredOnly(d, id, ts) ==
    [id |-> id,
     species_id |-> d.species_id,
     species_name |-> d.species_name,
     scientific_name |-> NULL,
     category |-> d.category,
     confidence |-> d.confidence,
     image_uri |-> NULL,
     location_lat |-> NullReal,
     location_lng |-> NullReal,
     location_name |-> NULL,
     conservation_status |-> NULL,
     threats |-> << >>,
     created_at |-> ts]

\* the VALUES list of saveDiscovery, with DEFAULT CURRENT_TIMESTAMP
DiscoveryRow(d, id, ts) ==
    [id |-> id,
     species_id |-> d.species_id,
     species_name |-> d.species_name,
     scientific_name |-> d.scientific_name,
     category |-> d.category,
     confidence |-> d.confidence,
     image_uri |-> d.image_uri,
     location_lat |-> LocationLat(d.location),
     location_lng |-> LocationLng(d.location),
     location_name |-> LocationName(d.location),
     conservation_status |-> d.conservation_status,
     threats |-> d.threats,
     created_at |-> ts]

\* a mutant: the save also enters the species it names into table species
TxSaveDiscoveryCataloguing(d) ==
    IF DiscoveryNotNullOk(d)
    THEN LET id == NextRowId("discoveries") IN
         /\ discoveries' = InsertRow(discoveries, DiscoveryRow(d, id, now))
         /\ sqlite_sequence' = [sqlite_sequence EXCEPT !["discoveries"] = id]
         /\ last' = [op |-> "saveDiscovery", outcome |-> "resolved", id |-> id,
                     data |-> d]
         /\ lastSavedId' = id
         /\ completed' = completed \cup { Completed("discoveries", id, d) }
         /\ species' = [k \in DOMAIN species \cup { d.species_id } |->
                            [id |-> d.species_id, name |-> d.species_name,
                             scientific_name |-> d.scientific_name,
                             category |-> d.category,
                             conservation_status |-> d.conservation_status]]
         /\ UNCHANGED << audio_analysis, ecosystem_assessments,
                         conservation_actions, user_preferences, written >>
    ELSE /\ last' = [op |-> "saveDiscovery", outcome |-> "rejected",
                     error |-> "NOT NULL constraint failed", data |-> d]
         /\ UNCHANGED << dbVars, lastSavedId, completed, written >>
\* the transaction of saveDiscovery: one INSERT, resolve(insertId) or reject(error)
TxSaveDiscovery(d) ==
    IF DiscoveryNotNullOk(d)
    THEN LET id == NextRowId("discoveries") IN
         /\ discoveries' = InsertRow(discoveries, DiscoveryRow(d, id, now))
         /\ sqlite_sequence' = [sqlite_sequence EXCEPT !["discoveries"] = id]
         /\ last' = [op |-> "saveDiscovery", outcome |-> "resolved", id |-> id,
                     data |-> d]
         /\ lastSavedId' = id
         /\ completed' = completed \cup { Completed("discoveries", id, d) }
         /\ UNCHANGED << audio_analysis, ecosystem_assessments,
                         conservation_actions, species, user_preferences, written >>
    ELSE /\ last' = [op |-> "saveDiscovery", outcome |-> "rejected",
                     error |-> "NOT NULL constraint failed", data |-> d]
         /\ UNCHANGED << dbVars, lastSavedId, completed, written >>

(***************************************************************************)
(* Tables audio_analysis and ecosystem_assessments.                        *)
(***************************************************************************)
\* the columns declared NOT NULL in CREATE TABLE audio_analysis
AudioNotNullOk(a) == a.audio_uri # NULL /\ a.duration # NullReal

\* the VALUES list of saveAudioAnalysis
AudioRow(a, id, ts) ==
    [id |-> id,
     audio_uri |-> a.audio_uri,
     duration |-> a.duration,
     biodiversity_score |-> a.biodiversity_score,
     environmental_health |-> a.environmental_health,
     location_lat |-> LocationLat(a.location),
     location_lng |-> LocationLng(a.location),
     location_name |-> LocationName(a.location),
     created_at |-> ts]

\* the transaction of saveAudioAnalysis
TxSaveAudioAnalysis(a) ==
    IF AudioNotNullOk(a)
    THEN LET id == NextRowId("audio_analysis") IN
         /\ audio_analysis' = InsertRow(audio_analysis, AudioRow(a, id, now))
         /\ sqlite_sequence' = [sqlite_sequence EXCEPT !["audio_analysis"] = id]
         /\ last' = [op |-> "saveAudioAnalysis", outcome |-> "resolved", id |-> id,
                     data |-> a]
         /\ completed' = completed \cup { Completed("audio_analysis", id, a) }
         /\ UNCHANGED << discoveries, ecosystem_assessments, conservation_actions,
                         species, user_preferences, lastSavedId, written >>
    ELSE /\ last' = [op |-> "saveAudioAnalysis", outcome |-> "rejected",
                     error |-> "NOT NULL constraint failed", data |-> a]
         /\ UNCHANGED << dbVars, lastSavedId, completed, written >>

\* the VALUES list of saveEcosystemAssessment (no column is NOT NULL)
AssessmentRow(e, id, ts) ==
    [id |-> id,
     image_uri |-> e.image_uri,
     audio_uri |-> e.audio_uri,
     overall_health |-> e.overall_health,
     biodiversity_index |-> e.biodiversity_index,
     location_lat |-> LocationLat(e.location),
     location_lng |-> LocationLng(e.location),
     location_name |-> LocationName(e.location),
     created_at |-> ts]

\* the transaction of saveEcosystemAssessment
TxSaveEcosystemAssessment(e) ==
    LET id == NextRowId("ecosystem_assessments") IN
    /\ ecosystem_assessments' =
           InsertRow(ecosystem_assessments, AssessmentRow(e, id, now))
    /\ sqlite_sequence' = [sqlite_sequence EXCEPT !["ecosystem_assessments"] = id]
    /\ last' = [op |-> "saveEcosystemAssessment", outcome |-> "resolved", id |-> id,
                data |-> e]
    /\ completed' = completed \cup { Completed("ecosystem_assessments", id, e) }
    /\ UNCHANGED << discoveries, audio_analysis, conservation_actions,
                    species, user_preferences, lastSavedId, written >>

(***************************************************************************)
(* Reading discoveries.                                                    *)
(***************************************************************************)
\* ORDER BY created_at DESC: the only order the statement asks for
OrderedByCreatedAtDesc(rows) ==
    \A i, j \in 1..Len(rows) : i < j => rows[i].created_at >= rows[j].created_at

\* every arrangement of the table the ORDER BY clause allows: the statement
\* names no second sort key, so rows of one created_at may come in any order
SelectOrderings(rows) ==
    { ord \in { [i \in 1..Len(rows) |-> rows[p[i]]] : p \in Permutations(1..Len(rows)) } :
        OrderedByCreatedAtDesc(ord) }

\* LIMIT ? OFFSET ?
Page(rows, limit, offset) == SubSeq(rows, offset + 1, Min(Len(rows), offset + limit))

\* JS truthiness of a numeric column: NULL and 0 are falsy
Truthy(x) == x # NullReal /\ x # 0

\* the object getDiscoveries builds from a row: { ...row, threats, recommendations, location }
DiscoveryObject(row) ==
    [row |-> row,
     threats |-> row.threats,
     location |-> IF Truthy(row.location_lat) /\ Truthy(row.location_lng)
                  THEN Location(row.location_lat, row.location_lng, row.location_name)
                  ELSE NullLocation]

\* the transaction of getDiscoveries
TxGetDiscoveries(limit, offset) ==
    /\ \E ord \in SelectOrderings(discoveries) :
          last' = [op |-> "getDiscoveries", limit |-> limit, offset |-> offset,
                   rows |-> [i \in 1..Len(Page(ord, limit, offset)) |->
                                DiscoveryObject(Page(ord, limit, offset)[i])],
                   afterSave |-> lastSavedId]
    /\ UNCHANGED << dbVars, lastSavedId, completed, written >>

\* getSpeciesById: the row of table species, or null
getSpeciesById(speciesId) ==
    IF speciesId \in DOMAIN species THEN species[speciesId] ELSE JsNull

(***************************************************************************)
(* Statistics.                                                             *)
(***************************************************************************)
SecondsPerDay == 86400
RecentDays == 7

\* date(t): the day of a timestamp, its time of day cut off
DateOf(t) == t \div SecondsPerDay

\* created_at >= date('now', '-7 days'), a comparison of the texts
\* 'YYYY-MM-DD HH:MM:SS' and 'YYYY-MM-DD'
IsRecent(created_at, t) == DateOf(created_at) >= DateOf(t) - RecentDays

Count(rows, P(_)) == Cardinality({ i \in 1..Len(rows) : P(rows[i]) })

\* mutant: the count runs over every finding table
StatsTotalAllTables == TotalRows

\* SELECT COUNT(*) as total FROM discoveries
StatsTotal == Len(discoveries)

\* SELECT category, COUNT(*) as count FROM discoveries GROUP BY category
StatsByCategory ==
    [c \in { discoveries[i].category : i \in 1..Len(discoveries) } |->
        Count(discoveries, LAMBDA r : r.category = c)]

\* SELECT COUNT(*) as recent FROM discoveries WHERE created_at >= date('now', '-7 days')
StatsRecent == Count(discoveries, LAMBDA r : IsRecent(r.created_at, now))

\* the transaction of getDiscoveryStats: three SELECTs in one transaction
TxGetDiscoveryStats ==
    /\ last' = [op |-> "getDiscoveryStats", total |-> StatsTotal,
                byCategory |-> StatsByCategory, recent |-> StatsRecent,
                savedBefore |-> [t \in FindingTables |-> SavedCount(t)]]
    /\ UNCHANGED << dbVars, lastSavedId, completed, written >>

(***************************************************************************)
(* Preferences.                                                            *)
(***************************************************************************)
\* mutant: INSERT OR IGNORE, a row of that key stays as it is
InsertOrIgnorePreference(prefs, key, value) ==
    IF \E r \in prefs : r.key = key THEN prefs
    ELSE prefs \cup { [key |-> key, value |-> value] }

\* INSERT OR REPLACE INTO user_preferences (key, value): key is the PRIMARY
\* KEY, so a row of that key is deleted before the new row goes in
UpsertPreference(prefs, key, value) ==
    { r \in prefs : r.key # key } \cup { [key |-> key, value |-> value] }

\* getUserPreference: SELECT value FROM user_preferences WHERE key = ?,
\* the value of the row, or null when there is none
getUserPreference(prefs, key) ==
    IF \E r \in prefs : r.key = key
    THEN (CHOOSE r \in prefs : r.key = key).value
    ELSE NULL

\* the transaction of setUserPreference
TxSetUserPreference(key, value) ==
    /\ user_preferences' = UpsertPreference(user_preferences, key, value)
    /\ written' = [k \in DOMAIN written \cup { key } |->
                       IF k = key THEN value ELSE written[k]]
    /\ last' = Void
    /\ UNCHANGED << discoveries, audio_analysis, ecosystem_assessments,
                    conservation_actions, species, sqlite_sequence,
                    lastSavedId, completed >>

(***************************************************************************)
(* Start-up, restart, time.                                                *)
(***************************************************************************)
\* CameraScreen after its useState calls; alert is the Alert shown last
CameraState == [isAnalyzing |-> FALSE, showResult |-> FALSE, alert |-> "none"]

\* AudioScreen after its useState calls; recording is the handle of the
\* Audio.Recording held in state (the id of the handler that created it, 0
\* for null), audioUri is the uri kept (NULL for null)
AudioState ==
    [recording |-> 0, isRecording |-> FALSE, isAnalyzing |-> FALSE,
     recordingDuration |-> 0, showResult |-> FALSE, audioUri |-> NULL,
     alert |-> "none"]

appVars == << dbOpen, gemmaInitialized, gemmaModel, speciesDatabase, now >>

\* INSERT OR REPLACE INTO species, for each of initialSpecies in turn
RECURSIVE SeedSpecies(_, _)
SeedSpecies(tbl, i) ==
    IF i > Len(InitialSpecies) THEN tbl
    ELSE LET s == InitialSpecies[i] IN
         SeedSpecies([k \in DOMAIN tbl \cup { s.id } |->
                         IF k = s.id
                         THEN [id |-> s.id, name |-> s.name,
                               scientific_name |-> s.scientific_name,
                               category |-> s.category,
                               conservation_status |-> s.conservation_status]
                         ELSE tbl[k]],
                     i + 1)

\* INSERT OR REPLACE INTO user_preferences, for each of defaultPreferences in turn
RECURSIVE SeedPreferences(_, _)
SeedPreferences(prefs, i) ==
    IF i > Len(defaultPreferences) THEN prefs
    ELSE SeedPreferences(
             UpsertPreference(prefs, defaultPreferences[i][1], defaultPreferences[i][2]),
             i + 1)

\* App.initializeApp at process start: DatabaseService.initialize (open the
\* database file, CREATE TABLE IF NOT EXISTS, insertInitialData), then
\* GemmaService.initialize (load the model, loadConservationData)
Initialize ==
    /\ ~dbOpen
    /\ dbOpen' = TRUE
    /\ species' = SeedSpecies(species, 1)
    /\ user_preferences' = SeedPreferences(user_preferences, 1)
    /\ gemmaInitialized' = TRUE
    /\ gemmaModel' = TRUE
    /\ speciesDatabase' = speciesData
    /\ last' = Void
    /\ UNCHANGED << now, discoveries, audio_analysis, ecosystem_assessments,
                    conservation_actions, sqlite_sequence, txQueue, screenVars,
                    lastSavedId, completed, written >>

\* the process ends: what lives in memory is gone, the database file stays
ProcessExit ==
    /\ dbOpen
    /\ dbOpen' = FALSE
    /\ gemmaInitialized' = FALSE
    /\ gemmaModel' = FALSE
    /\ speciesDatabase' = << >>
    /\ txQueue' = << >>
    /\ camera' = CameraState
    /\ audio' = AudioState
    /\ threads' = { }
    /\ last' = Void
    /\ UNCHANGED << now, dbVars, lastSavedId, completed, written, trace, requests >>

\* one second passes
Tick ==
    /\ now < MaxClock
    /\ now' = now + 1
    /\ UNCHANGED << dbOpen, gemmaInitialized, gemmaModel, speciesDatabase, dbVars, txQueue, screenVars,
                    last, lastSavedId, completed, written >>

(***************************************************************************)
(* The calls of DatabaseService, each awaited by its caller.               *)
(***************************************************************************)
SaveDiscovery(d) ==
    /\ dbOpen
    /\ TotalRows < MaxFindings
    /\ TxSaveDiscovery(d)
    /\ UNCHANGED << appVars, txQueue, screenVars >>

SaveAudioAnalysis(a) ==
    /\ dbOpen
    /\ TotalRows < MaxFindings
    /\ TxSaveAudioAnalysis(a)
    /\ UNCHANGED << appVars, txQueue, screenVars >>

SaveEcosystemAssessment(e) ==
    /\ dbOpen
    /\ TotalRows < MaxFindings
    /\ TxSaveEcosystemAssessment(e)
    /\ UNCHANGED << appVars, txQueue, screenVars >>

GetDiscoveries(limit, offset) ==
    /\ dbOpen
    /\ TxGetDiscoveries(limit, offset)
    /\ UNCHANGED << appVars, txQueue, screenVars >>

GetDiscoveryStats ==
    /\ dbOpen
    /\ TxGetDiscoveryStats
    /\ UNCHANGED << appVars, txQueue, screenVars >>

\* SettingsScreen.updatePreference: setUserPreference(key, value.toString())
SetUserPreference(key, value) ==
    /\ dbOpen
    /\ TxSetUserPreference(key, value)
    /\ UNCHANGED << appVars, txQueue, screenVars >>

(***************************************************************************)
(* The screens.                                                            *)
(***************************************************************************)
\* Array.from(speciesDatabase.values())[Math.floor(Math.random() * size)]
PickSpecies(r) == speciesDatabase[(r * Len(speciesDatabase)) \div 100 + 1]

\* a mutant: the draw is scaled by 0.2
PickConfidenceWide(r) == 87 + (r * 20) \div 100
\* 0.87 + Math.random() * 0.1, in hundredths
PickConfidence(r) == 87 + (r * 10) \div 100

\* CameraScreen.saveDiscovery: the discoveryData built from an identification
CameraDiscoveryData(sp, confidence, loc) ==
    [species_id |-> sp.id, species_name |-> sp.name,
     scientific_name |-> sp.scientificName, category |-> sp.category,
     confidence |-> confidence, image_uri |-> "photo", location |-> loc,
     conservation_status |-> sp.conservationStatus, threats |-> sp.threats]

\* CameraScreen.analyzeSpecies: identifySpeciesFromImage, then saveDiscovery,
\* whose failure is caught and logged
AnalyzeSpecies(r1, r2, loc) ==
    /\ dbOpen
    /\ gemmaInitialized
    /\ TotalRows < MaxFindings
    /\ TxSaveDiscovery(CameraDiscoveryData(PickSpecies(r1), PickConfidence(r2), loc))
    /\ UNCHANGED << appVars, txQueue, screenVars >>

\* SettingsScreen.clearAllData, 'Clear Data' pressed: the handler only
\* shows Alert('Success', 'All data has been cleared')
ClearAllData ==
    /\ dbOpen
    /\ last' = Void
    /\ UNCHANGED << appVars, dbVars, txQueue, screenVars, lastSavedId, completed, written >>

(***************************************************************************)
(* The specification.                                                      *)
(***************************************************************************)
Init ==
    /\ dbOpen = FALSE
    /\ gemmaInitialized = FALSE
    /\ speciesDatabase = << >>
    /\ now = 0
    /\ discoveries = << >>
    /\ audio_analysis = << >>
    /\ ecosystem_assessments = << >>
    /\ conservation_actions = << >>
    /\ species = << >>
    /\ user_preferences = { }
    /\ sqlite_sequence = [t \in FindingTables |-> 0]
    /\ txQueue = << >>
    /\ last = Void
    /\ lastSavedId = 0
    /\ completed = { }
    /\ written = << >>
    /\ gemmaModel = FALSE
    /\ camera = CameraState
    /\ audio = AudioState
    /\ threads = { }
    /\ trace = << >>
    /\ requests = 0

Next ==
    \/ Initialize
    \/ ProcessExit
    \/ Tick
    \/ \E d \in DiscoveryInputs : SaveDiscovery(d)
    \/ \E a \in AudioInputs : SaveAudioAnalysis(a)
    \/ \E e \in AssessmentInputs : SaveEcosystemAssessment(e)
    \/ \E l \in Limits, o \in Offsets : GetDiscoveries(l, o)
    \/ GetDiscoveryStats
    \/ \E k \in WrittenKeys, v \in PrefValues : SetUserPreference(k, v)
    \/ \E r \in RandomDraws : AnalyzeSpecies(r[1], r[2], NullLocation)
    \/ ClearAllData

Spec == Init /\ [][Next]_vars

(***************************************************************************)
(* Claims about the finding store.                                         *)
(***************************************************************************)
InUnit(x) == 0 <= x /\ x <= 100

\* C1: when saveDiscovery has resolved with id X and no later save has
\* completed, getDiscoveries(1, 0) returns exactly one row, the row of id X,
\* also when earlier discoveries carry the same created_at second.
C1_SaveThenQueryNewest ==
    (last.op = "getDiscoveries" /\ last.limit = 1 /\ last.offset = 0
        /\ last.afterSave # 0)
    => (Len(last.rows) = 1 /\ last.rows[1].row.id = last.afterSave)

C3_OutOfRangeRejected ==
    /\ \A i \in 1..Len(discoveries) : InUnit(discoveries[i].confidence)
    /\ \A i \in 1..Len(audio_analysis) : InUnit(audio_analysis[i].biodiversity_score)
    /\ \A i \in 1..Len(ecosystem_assessments) :
          /\ InUnit(ecosystem_assessments[i].overall_health)
          /\ InUnit(ecosystem_assessments[i].biodiversity_index)
    /\ (last.op = "saveDiscovery" /\ ~InUnit(last.data.confidence))
          => last.outcome = "rejected"
    /\ (last.op = "saveAudioAnalysis" /\ ~InUnit(last.data.biodiversity_score))
          => last.outcome = "rejected"
    /\ (last.op = "saveEcosystemAssessment"
            /\ ~(InUnit(last.data.overall_health) /\ InUnit(last.data.biodiversity_index)))
          => last.outcome = "rejected"

\* C4: the species_id of every stored discovery is null or resolves in table
\* species (getSpeciesById is not null), whatever species the identification
\* pipeline returned to the camera flow that saved it.
C4_SpeciesIdResolves ==
    \A i \in 1..Len(discoveries) :
        \/ discoveries[i].species_id = NULL
        \/ getSpeciesById(discoveries[i].species_id) # JsNull

\* rows in created_at order, newest first, rows of one created_at by id:
\* ascending when dir is "asc", descending when it is "desc"
OrderedByCreatedAtThenId(rows, dir) ==
    \A i, j \in 1..Len(rows) :
        i < j => \/ rows[i].created_at > rows[j].created_at
                 \/ /\ rows[i].created_at = rows[j].created_at
                    /\ dir = "asc" => rows[i].id < rows[j].id
                    /\ dir = "desc" => rows[i].id > rows[j].id

\* res is the page (limit, offset) of table tbl in one of the two total orders
IsPageOfTotalOrder(res, tbl) ==
    \E dir \in { "asc", "desc" } :
        \E ord \in SelectOrderings(tbl) :
            /\ OrderedByCreatedAtThenId(ord, dir)
            /\ Len(res.rows) = Len(Page(ord, res.limit, res.offset))
            /\ \A i \in 1..Len(res.rows) :
                  res.rows[i].row = Page(ord, res.limit, res.offset)[i]

\* C5: getDiscoveries returns, newest first, at most `limit` rows after the
\* first `offset` rows of a total order in which rows of equal created_at are
\* placed by their ids, the same on every call.
C5_TotalOrderEveryCall ==
    [][ last'.op = "getDiscoveries"
        => /\ IsPageOfTotalOrder(last', discoveries')
           /\ (last.op = "getDiscoveries" /\ last.limit = last'.limit
                   /\ last.offset = last'.offset)
              => last'.rows = last.rows ]_vars

(***************************************************************************)
(* Claims about preferences, restart and erasure.                          *)
(***************************************************************************)
\* one run of the application: start-up, then calls, and no restart
NextSession ==
    \/ Initialize
    \/ Tick
    \/ \E d \in DiscoveryInputs : SaveDiscovery(d)
    \/ \E a \in AudioInputs : SaveAudioAnalysis(a)
    \/ \E e \in AssessmentInputs : SaveEcosystemAssessment(e)
    \/ \E l \in Limits, o \in Offsets : GetDiscoveries(l, o)
    \/ GetDiscoveryStats
    \/ \E k \in WrittenKeys, v \in PrefValues : SetUserPreference(k, v)
    \/ \E r \in RandomDraws : AnalyzeSpecies(r[1], r[2], NullLocation)
    \/ ClearAllData

SpecSession == Init /\ [][NextSession]_vars

\* C6: after any sequence of setUserPreference calls the preference table has
\* at most one row per key, and getUserPreference(k) is the value written last
\* for k, the seeded default of a seeded key never written, and null for a
\* key neither written nor seeded; so a write to one key changes no other key.
C6_LastWriteWins ==
    dbOpen =>
        /\ \A r1, r2 \in user_preferences : r1.key = r2.key => r1 = r2
        /\ \A k \in ReadKeys :
              getUserPreference(user_preferences, k) =
                  IF k \in DOMAIN written THEN written[k]
                  ELSE IF k \in SeededKeys THEN SeededValue(k)
                  ELSE NULL

\* a seeded key overwritten with another value and an unseeded key written
C6_Witness ==
    /\ dbOpen
    /\ "notifications_enabled" \in DOMAIN written
    /\ written["notifications_enabled"] = "false"
    /\ "auto_save_discoveries" \in DOMAIN written

\* C7: running initialize() again on an existing database leaves every saved
\* finding and every preference value written by setUserPreference as it was,
\* the seeded keys included.
C7_RestartKeepsData ==
    [][ Initialize
        => /\ discoveries' = discoveries
           /\ audio_analysis' = audio_analysis
           /\ ecosystem_assessments' = ecosystem_assessments
           /\ \A k \in DOMAIN written :
                 getUserPreference(user_preferences', k) = written[k] ]_vars

\* C8: after 'Clear All Data' is confirmed, the four finding tables and the
\* preference table are empty and table species is unchanged.
C8_EraseAllEmpties ==
    [][ ClearAllData
        => /\ discoveries' = << >>
           /\ audio_analysis' = << >>
           /\ ecosystem_assessments' = << >>
           /\ conservation_actions' = << >>
           /\ user_preferences' = { }
           /\ species' = species ]_vars

\* every row of `before` is in `after` at its place and unchanged, and every
\* row added has an id above every id given so far
AppendOnly(before, after) ==
    /\ Len(after) >= Len(before)
    /\ \A i \in 1..Len(before) : after[i] = before[i]
    /\ \A j \in (Len(before) + 1)..Len(after) :
          \A i \in 1..(j - 1) : after[j].id > after[i].id

\* C9: the finding tables are append-only: no operation changes a field of an
\* existing row (created_at included) or removes a row, and the ids of the
\* rows saved into one table are strictly increasing and never reused.
C9_AppendOnly ==
    [][ /\ AppendOnly(discoveries, discoveries')
        /\ AppendOnly(audio_analysis, audio_analysis')
        /\ AppendOnly(ecosystem_assessments, ecosystem_assessments')
        /\ AppendOnly(conservation_actions, conservation_actions')
        /\ (last'.op = "saveDiscovery" /\ last'.outcome = "resolved" /\ last' # last)
              => /\ Len(discoveries') = Len(discoveries) + 1
                 /\ discoveries'[Len(discoveries')].id = last'.id
                 /\ last'.id > lastSavedId ]_vars

\* two discoveries saved one after the other
C9_Witness ==
    /\ Len(discoveries) = 2
    /\ last.op = "saveDiscovery"
    /\ last.outcome = "resolved"
    /\ last.id = discoveries[2].id

(***************************************************************************)
(* Concurrent requests.  Every method of DatabaseService hands its         *)
(* statements to db.transaction, which queues the transaction; the         *)
(* database runs the queued transactions one at a time, in the order they  *)
(* were queued, each to its end.                                           *)
(***************************************************************************)
\* the findings the concurrent requests save
ConcurrentSaves ==
    { [op |-> "saveDiscovery", data |-> d] : d \in DiscoveryInputs }
    \cup { [op |-> "saveAudioAnalysis", data |-> a] : a \in AudioInputs }
    \cup { [op |-> "saveEcosystemAssessment", data |-> e] : e \in AssessmentInputs }

IsSave(t) ==
    t.op \in { "saveDiscovery", "saveAudioAnalysis", "saveEcosystemAssessment" }

QueuedSaves == Cardinality({ i \in 1..Len(txQueue) : IsSave(txQueue[i]) })

\* saveDiscovery, saveAudioAnalysis or saveEcosystemAssessment is called:
\* db.transaction queues its INSERT
CallSave(t) ==
    /\ dbOpen
    /\ Len(txQueue) < MaxQueue
    /\ TotalRows + QueuedSaves < MaxFindings
    /\ txQueue' = Append(txQueue, t)
    /\ UNCHANGED screenVars
    /\ UNCHANGED << appVars, dbVars, last, lastSavedId, completed, written >>

\* HistoryScreen.loadDiscoveries: Promise.all of getDiscoveries(100, 0) and
\* getDiscoveryStats(), two transactions queued one after the other
LoadDiscoveries ==
    /\ dbOpen
    /\ Len(txQueue) + 2 <= MaxQueue
    /\ txQueue' = txQueue \o << [op |-> "getDiscoveries", limit |-> 100, offset |-> 0],
                               [op |-> "getDiscoveryStats"] >>
    /\ UNCHANGED screenVars
    /\ UNCHANGED << appVars, dbVars, last, lastSavedId, completed, written >>

\* HomeScreen.loadDashboardData: getDiscoveryStats() and getDiscoveries(5, 0),
\* each awaited, so each queued on its own
DashboardReads ==
    { [op |-> "getDiscoveryStats"], [op |-> "getDiscoveries", limit |-> 5, offset |-> 0] }

CallRead(t) ==
    /\ dbOpen
    /\ Len(txQueue) < MaxQueue
    /\ txQueue' = Append(txQueue, t)
    /\ UNCHANGED screenVars
    /\ UNCHANGED << appVars, dbVars, last, lastSavedId, completed, written >>

\* the database runs the transaction at the head of the queue and the
\* promise of its call settles
RunTransaction ==
    /\ dbOpen
    /\ txQueue # << >>
    /\ LET t == Head(txQueue) IN
          \/ t.op = "saveDiscovery" /\ TxSaveDiscovery(t.data)
          \/ t.op = "saveAudioAnalysis" /\ TxSaveAudioAnalysis(t.data)
          \/ t.op = "saveEcosystemAssessment" /\ TxSaveEcosystemAssessment(t.data)
          \/ t.op = "getDiscoveries" /\ TxGetDiscoveries(t.limit, t.offset)
          \/ t.op = "getDiscoveryStats" /\ TxGetDiscoveryStats
    /\ txQueue' = Tail(txQueue)
    /\ UNCHANGED << appVars, screenVars >>

NextConcurrent ==
    \/ Initialize
    \/ ProcessExit
    \/ Tick
    \/ \E t \in ConcurrentSaves : CallSave(t)
    \/ LoadDiscoveries
    \/ \E t \in DashboardReads : CallRead(t)
    \/ RunTransaction

SpecConcurrent == Init /\ [][NextConcurrent]_vars

\* the row carries every column of the finding the completed save c was given
DiscoveryCarries(row, c) ==
    /\ c.table = "discoveries"
    /\ row.id = c.id
    /\ row.created_at = c.at
    /\ row.species_id = c.data.species_id
    /\ row.species_name = c.data.species_name
    /\ row.scientific_name = c.data.scientific_name
    /\ row.category = c.data.category
    /\ row.confidence = c.data.confidence
    /\ row.image_uri = c.data.image_uri
    /\ row.location_lat = LocationLat(c.data.location)
    /\ row.location_lng = LocationLng(c.data.location)
    /\ row.location_name = LocationName(c.data.location)
    /\ row.conservation_status = c.data.conservation_status
    /\ row.threats = c.data.threats

\* C10: with saves and reads of concurrent requests interleaved in any order,
\* every row a reader gets carries all the columns of one completed save, the
\* counts a reader gets count completed saves only, and a save that failed or
\* has not run yet has left no row in any table.
C10_NoPartialWrite ==
    /\ last.op = "getDiscoveries"
          => \A i \in 1..Len(last.rows) :
                \E c \in completed : DiscoveryCarries(last.rows[i].row, c)
    /\ last.op = "getDiscoveryStats"
          => last.total = last.savedBefore["discoveries"]
    /\ Len(discoveries) = SavedCount("discoveries")
    /\ Len(audio_analysis) = SavedCount("audio_analysis")
    /\ Len(ecosystem_assessments) = SavedCount("ecosystem_assessments")

\* a reader was answered with a saved row while another save was waiting in the queue
C10_Witness ==
    /\ last.op = "getDiscoveries"
    /\ Len(last.rows) >= 1
    /\ txQueue # << >>
    /\ IsSave(Head(txQueue))

(***************************************************************************)
(* Text.  TLC does not look inside a string, so a text that the code       *)
(* matches character by character is spelled out here as the sequence of   *)
(* its characters.                                                         *)
(***************************************************************************)
Chars ==
    ("Oak Tree"             :> << "O", "a", "k", " ", "T", "r", "e", "e" >>)
    @@ ("Quercus"              :> << "Q", "u", "e", "r", "c", "u", "s" >>)
    @@ ("tree"                 :> << "t", "r", "e", "e" >>)
    @@ ("American Robin"       :> << "A", "m", "e", "r", "i", "c", "a", "n", " ", "R", "o", "b", "i", "n" >>)
    @@ ("Turdus migratorius"   :> << "T", "u", "r", "d", "u", "s", " ", "m", "i", "g", "r", "a", "t", "o", "r", "i", "u", "s" >>)
    @@ ("bird"                 :> << "b", "i", "r", "d" >>)
    @@ ("Monarch Butterfly"    :> << "M", "o", "n", "a", "r", "c", "h", " ", "B", "u", "t", "t", "e", "r", "f", "l", "y" >>)
    @@ ("Danaus plexippus"     :> << "D", "a", "n", "a", "u", "s", " ", "p", "l", "e", "x", "i", "p", "p", "u", "s" >>)
    @@ ("insect"               :> << "i", "n", "s", "e", "c", "t" >>)
    @@ ("Eastern Bluebird"     :> << "E", "a", "s", "t", "e", "r", "n", " ", "B", "l", "u", "e", "b", "i", "r", "d" >>)
    @@ ("Sialia sialis"        :> << "S", "i", "a", "l", "i", "a", " ", "s", "i", "a", "l", "i", "s" >>)
    @@ ("Eastern White Pine"   :> << "E", "a", "s", "t", "e", "r", "n", " ", "W", "h", "i", "t", "e", " ", "P", "i", "n", "e" >>)
    @@ ("Pinus strobus"        :> << "P", "i", "n", "u", "s", " ", "s", "t", "r", "o", "b", "u", "s" >>)
    @@ ("oak"                  :> << "o", "a", "k" >>)
    @@ ("BIRD"                 :> << "B", "I", "R", "D" >>)
    @@ ("us"                   :> << "u", "s" >>)
    @@ ("zzz"                  :> << "z", "z", "z" >>)
    @@ ("%"                    :> << "%" >>)
    @@ ("_"                    :> << "_" >>)
    @@ ("Urban Park"           :> << "U", "r", "b", "a", "n", " ", "P", "a", "r", "k" >>)
    @@ ("Goa Beach"            :> << "G", "o", "a", " ", "B", "e", "a", "c", "h" >>)
    @@ ("Pune, India"          :> << "P", "u", "n", "e", ",", " ", "I", "n", "d", "i", "a" >>)
    @@ ("Pine Ridge"           :> << "P", "i", "n", "e", " ", "R", "i", "d", "g", "e" >>)
    @@ ("your area"            :> << "y", "o", "u", "r", " ", "a", "r", "e", "a" >>)
    @@ ("goa"                  :> << "g", "o", "a" >>)
    @@ ("coast"                :> << "c", "o", "a", "s", "t" >>)
    @@ ("city"                 :> << "c", "i", "t", "y" >>)
    @@ ("urban"                :> << "u", "r", "b", "a", "n" >>)
    @@ ("india"                :> << "i", "n", "d", "i", "a" >>)

\* the ASCII characters of the texts above, in the order of their codes
Ascii ==
    << " ", "%", ",",
       "A", "B", "C", "D", "E", "F", "G", "H", "I", "J", "K", "L", "M",
       "N", "O", "P", "Q", "R", "S", "T", "U", "V", "W", "X", "Y", "Z",
       "_",
       "a", "b", "c", "d", "e", "f", "g", "h", "i", "j", "k", "l", "m",
       "n", "o", "p", "q", "r", "s", "t", "u", "v", "w", "x", "y", "z" >>

CharCode(c) == CHOOSE i \in 1..Len(Ascii) : Ascii[i] = c

\* String.prototype.toLowerCase and the case folding of LIKE, on one
\* character: "A".."Z" (places 4..29 of Ascii) map to "a".."z" (31..56)
ToLowerCase(c) ==
    LET i == CharCode(c) IN IF i >= 4 /\ i <= 29 THEN Ascii[i + 27] ELSE c

\* String.prototype.includes after toLowerCase() on the receiver, the needle
\* being lower case already: the needle occurs in the text
Includes(text, needle) ==
    \E i \in 0..(Len(text) - Len(needle)) :
        \A j \in 1..Len(needle) : ToLowerCase(text[i + j]) = needle[j]

\* the comparison of two texts under the BINARY collation of ORDER BY
RECURSIVE TextBefore(_, _)
TextBefore(a, b) ==
    IF b = << >> THEN FALSE
    ELSE IF a = << >> THEN TRUE
    ELSE IF Head(a) = Head(b) THEN TextBefore(Tail(a), Tail(b))
    ELSE CharCode(Head(a)) < CharCode(Head(b))

(***************************************************************************)
(* The catalogue search.                                                   *)
(***************************************************************************)
\* what the search box may hand to searchSpecies
SearchQueries == { "oak", "BIRD", "us", "zzz", "%", "_" }

\* the operator LIKE of SQLite: in the pattern "%" stands for any run of
\* characters, "_" for any one character, every other character for itself,
\* upper and lower case ASCII letters alike
RECURSIVE Like(_, _)
Like(text, pattern) ==
    IF pattern = << >> THEN text = << >>
    ELSE IF Head(pattern) = "%"
         THEN \/ Like(text, Tail(pattern))
              \/ text # << >> /\ Like(Tail(text), pattern)
    ELSE IF text = << >> THEN FALSE
    ELSE IF Head(pattern) = "_" THEN Like(Tail(text), Tail(pattern))
    ELSE /\ ToLowerCase(Head(text)) = ToLowerCase(Head(pattern))
         /\ Like(Tail(text), Tail(pattern))

\* the bound parameter `%${query}%`
LikePattern(query) == << "%" >> \o Chars[query] \o << "%" >>

\* WHERE name LIKE ? OR scientific_name LIKE ? OR category LIKE ?
SearchWhere(row, query) ==
    \/ Like(Chars[row.name], LikePattern(query))
    \/ Like(Chars[row.scientific_name], LikePattern(query))
    \/ Like(Chars[row.category], LikePattern(query))

\* ORDER BY name (the seeded names are all different, so the order is total)
RECURSIVE OrderByName(_)
OrderByName(rows) ==
    IF rows = { } THEN << >>
    ELSE LET first == CHOOSE r \in rows :
                          \A s \in rows : ~TextBefore(Chars[s.name], Chars[r.name])
         IN  << first >> \o OrderByName(rows \ { first })

\* searchSpecies(query): the rows the SELECT returns
searchSpecies(query) ==
    OrderByName({ species[id] : id \in { k \in DOMAIN species : SearchWhere(species[k], query) } })

\* what a call that only reads leaves alone
readOnlyVars == << dbOpen, gemmaInitialized, gemmaModel, speciesDatabase, now, discoveries,
                   audio_analysis, ecosystem_assessments, conservation_actions,
                   species, user_preferences, sqlite_sequence, txQueue, screenVars,
                   lastSavedId, completed, written >>

SearchSpecies(query) ==
    /\ dbOpen
    /\ last' = [op |-> "searchSpecies", query |-> query, species |-> searchSpecies(query)]
    /\ UNCHANGED readOnlyVars

\* the text occurs in the column, upper and lower case alike, every
\* character of the text standing for itself
ContainsLiterally(column, text) ==
    \E i \in 0..(Len(column) - Len(text)) :
        \A j \in 1..Len(text) : ToLowerCase(column[i + j]) = ToLowerCase(text[j])

MatchesLiterally(row, query) ==
    \/ ContainsLiterally(Chars[row.name], Chars[query])
    \/ ContainsLiterally(Chars[row.scientific_name], Chars[query])
    \/ ContainsLiterally(Chars[row.category], Chars[query])

\* C11: searchSpecies(q) returns exactly the species whose name, scientific
\* name or category contains q as a literal substring, case-insensitively
\* ("%" and "_" standing for themselves), each once, by ascending name.
C11_SearchLiteralSubstring ==
    last.op = "searchSpecies" =>
        /\ { last.species[i] : i \in 1..Len(last.species) }
               = { species[id] : id \in { k \in DOMAIN species :
                                            MatchesLiterally(species[k], last.query) } }
        /\ \A i, j \in 1..Len(last.species) :
               i < j => TextBefore(Chars[last.species[i].name], Chars[last.species[j].name])

(***************************************************************************)
(* Model selection (the writeup's GemmaService.selectOptimalModel).        *)
(***************************************************************************)
LowBattery == 20    \* deviceState.batteryLevel < 0.2, in hundredths

\* the tasks and device states selectOptimalModel may be given
Tasks == [complexity : { "low", "high" }, requiresHighAccuracy : BOOLEAN]
DeviceStates == [batteryLevel : { 10, 20, 60 }, isPluggedIn : BOOLEAN]

\* selectOptimalModel(task, deviceState): the field of the service it returns,
\* gemma2B (the 2B submodel), gemma4B (the full 4B model) or adaptiveModel
\* (dynamic sizing between the two)
selectOptimalModel(task, deviceState) ==
    IF deviceState.batteryLevel < LowBattery /\ task.complexity = "low"
    THEN "gemma2B"
    ELSE IF task.requiresHighAccuracy \/ deviceState.isPluggedIn
    THEN "gemma4B"
    ELSE "adaptiveModel"

SelectOptimalModel(task, deviceState) ==
    /\ gemmaInitialized
    /\ last' = [op |-> "selectOptimalModel", task |-> task, deviceState |-> deviceState,
                variant |-> selectOptimalModel(task, deviceState)]
    /\ UNCHANGED readOnlyVars

\* C13: the policy picks the lowest-cost variant (gemma2B) when the battery
\* is below the low threshold and the task's accuracy requirement is not
\* high, plugged in or not; else the highest-capability variant (gemma4B)
\* when the accuracy requirement is high or the device is plugged in; else
\* the mid-cost variant (adaptiveModel).
C13_SelectionPriority ==
    last.op = "selectOptimalModel" =>
        last.variant =
            IF /\ last.deviceState.batteryLevel < LowBattery
               /\ ~last.task.requiresHighAccuracy
            THEN "gemma2B"
            ELSE IF last.task.requiresHighAccuracy \/ last.deviceState.isPluggedIn
            THEN "gemma4B"
            ELSE "adaptiveModel"

(***************************************************************************)
(* GemmaService: species identification.                                   *)
(***************************************************************************)
\* the locations a screen may hold when it calls the service
ScreenLocations == { NullLocation, LocUrban }

\* mockTextGeneration: the recommendations the text model knows
mockRecommendations ==
    << "Plant native species to support local wildlife",
       "Create pollinator-friendly gardens with diverse flowering plants",
       "Reduce pesticide use to protect beneficial insects",
       "Install bird houses and water sources",
       "Participate in citizen science projects",
       "Support local conservation organizations",
       "Practice sustainable gardening techniques",
       "Educate others about environmental conservation" >>

\* mockTextGeneration: recommendations.slice(0, 4).join('\n'), whatever the prompt
mockTextGeneration(prompt) == SubSeq(mockRecommendations, 1, 4)

\* generateConservationRecommendations(species, location): the prompt names
\* the species and the location, the answer is split into its lines
generateConservationRecommendations(sp, loc) ==
    mockTextGeneration([species |-> sp.name, location |-> loc])

\* mockMultimodalProcessing, task species_identification: the score it
\* attaches to each species of speciesDatabase it may return.  The draw that
\* gives the confidence does not look at the species the other draw picked,
\* so every candidate carries the same score.
CandidateScores(r2) == [i \in 1..Len(speciesDatabase) |-> PickConfidence(r2)]

\* mockMultimodalProcessing, task species_identification
mockSpeciesIdentification(r1, r2) ==
    LET sp == PickSpecies(r1) IN
    [species |-> sp, confidence |-> PickConfidence(r2),
     conservationStatus |-> sp.conservationStatus, threats |-> sp.threats]

\* identifySpeciesFromImage(imageUri, location)
identifySpeciesFromImage(r1, r2, loc) ==
    LET analysisResult == mockSpeciesIdentification(r1, r2) IN
    [species |-> analysisResult.species,
     confidence |-> analysisResult.confidence,
     conservationStatus |-> analysisResult.conservationStatus,
     threats |-> analysisResult.threats,
     recommendations |-> generateConservationRecommendations(analysisResult.species, loc),
     location |-> loc]

IdentifySpeciesFromImage(r1, r2, loc) ==
    /\ last' = IF gemmaInitialized
               THEN [op |-> "identifySpeciesFromImage", outcome |-> "resolved",
                     result |-> identifySpeciesFromImage(r1, r2, loc),
                     top |-> (r1 * Len(speciesDatabase)) \div 100 + 1,
                     scores |-> CandidateScores(r2)]
               ELSE [op |-> "identifySpeciesFromImage", outcome |-> "rejected",
                     error |-> "Gemma service not initialized"]
    /\ UNCHANGED readOnlyVars

\* the best score among the candidates other than the top one
RECURSIVE MaxOf(_)
MaxOf(S) ==
    IF Cardinality(S) = 1 THEN CHOOSE x \in S : TRUE
    ELSE LET x == CHOOSE y \in S : TRUE
             m == MaxOf(S \ { x })
         IN  IF x >= m THEN x ELSE m

SecondBestScore(scores, top) == MaxOf({ scores[i] : i \in DOMAIN scores \ { top } })

\* C14: the confidence of an identification is the top candidate's raw
\* score when that score leads the second-best candidate's by at least 0.05,
\* and is capped at 0.6 otherwise.
C14_ConfidenceDampened ==
    (last.op = "identifySpeciesFromImage" /\ last.outcome = "resolved") =>
        LET raw == last.scores[last.top]
            second == SecondBestScore(last.scores, last.top)
        IN  last.result.confidence =
                IF raw - second >= 5 THEN raw ELSE Min(raw, 60)

(***************************************************************************)
(* Audio analysis: GemmaService.analyzeEnvironmentalAudio and the demo     *)
(* server's /api/analyze-audio.                                            *)
(***************************************************************************)
\* Math.random(), in hundredths
UnitDraws == { 0, 50, 99 }

\* the clips a screen may hand over: the recording and its length in seconds
AudioClips == { [uri |-> "rec1", duration |-> 45] }

\* mockMultimodalProcessing, task environmental_audio_analysis
mockAudioProcessing(r) ==
    [sounds |-> << "Bird calls", "Wind through trees", "Water flow" >>,
     biodiversityScore |-> 75 + (r * 20) \div 100,
     environmentalHealth |-> "Good",
     detectedSpecies |-> << "American Robin", "Blue Jay" >>,
     recommendations |-> << "Maintain current habitat conditions",
                            "Monitor for invasive species",
                            "Continue water source protection" >>]

\* analyzeEnvironmentalAudio(audioUri, duration, location)
analyzeEnvironmentalAudio(clip, loc, r) ==
    LET analysisResult == mockAudioProcessing(r) IN
    [sounds |-> analysisResult.sounds,
     biodiversityScore |-> analysisResult.biodiversityScore,
     environmentalHealth |-> analysisResult.environmentalHealth,
     species |-> analysisResult.detectedSpecies,
     recommendations |-> analysisResult.recommendations,
     location |-> loc]

AnalyzeEnvironmentalAudio(clip, loc, r) ==
    /\ last' = IF gemmaInitialized
               THEN [op |-> "analyzeEnvironmentalAudio", outcome |-> "resolved",
                     result |-> analyzeEnvironmentalAudio(clip, loc, r)]
               ELSE [op |-> "analyzeEnvironmentalAudio", outcome |-> "rejected",
                     error |-> "Gemma service not initialized"]
    /\ UNCHANGED readOnlyVars

\* mutant: the urban park analysis carries the tier of the forest analysis
mockAudioAnalysisOneTier ==
    [forest_morning |->
        [biodiversityScore |-> 85, environmentalHealth |-> "Excellent",
         recommendations |->
            << "This area shows excellent biodiversity - continue current conservation practices",
               "Consider establishing this as a protected habitat corridor",
               "Monitor for invasive species during seasonal changes",
               "Document seasonal changes in species composition" >>],
     urban_park |->
        [biodiversityScore |-> 45, environmentalHealth |-> "Excellent",
         recommendations |->
            << "This area shows excellent biodiversity - continue current conservation practices",
               "Consider establishing this as a protected habitat corridor",
               "Monitor for invasive species during seasonal changes",
               "Document seasonal changes in species composition" >>]]

\* the demo server's mockAudioAnalysis
mockAudioAnalysis ==
    [forest_morning |->
        [biodiversityScore |-> 85, environmentalHealth |-> "Excellent",
         recommendations |->
            << "This area shows excellent biodiversity - continue current conservation practices",
               "Consider establishing this as a protected habitat corridor",
               "Monitor for invasive species during seasonal changes",
               "Document seasonal changes in species composition" >>],
     urban_park |->
        [biodiversityScore |-> 45, environmentalHealth |-> "Fair",
         recommendations |->
            << "Plant native flowering plants to attract more species",
               "Create quiet zones away from traffic noise",
               "Install bird houses and water features",
               "Reduce light pollution to support nocturnal species" >>]]

\* POST /api/analyze-audio: Math.random() > 0.5 ? 'forest_morning' : 'urban_park',
\* then { ...analysis, duration, location, confidence: 0.82 + Math.random() * 0.15 }
apiAnalyzeAudio(clip, loc, r1, r2) ==
    LET analysisType == IF r1 > 50 THEN "forest_morning" ELSE "urban_park"
        analysis == mockAudioAnalysis[analysisType]
    IN  [biodiversityScore |-> analysis.biodiversityScore,
         environmentalHealth |-> analysis.environmentalHealth,
         recommendations |-> analysis.recommendations,
         duration |-> clip.duration,
         location |-> loc,
         confidence |-> 82 + (r2 * 15) \div 100]

ApiAnalyzeAudio(clip, loc, r1, r2) ==
    /\ last' = [op |-> "apiAnalyzeAudio", outcome |-> "resolved",
                result |-> apiAnalyzeAudio(clip, loc, r1, r2)]
    /\ UNCHANGED readOnlyVars

(***************************************************************************)
(* Ecosystem assessment: GemmaService.assessEcosystemHealth and the demo   *)
(* server's /api/ecosystem-assessment.                                     *)
(***************************************************************************)
\* the captures an assessment may be given: each of the two may be missing
AssessmentCaptures == [image : { NULL, "img1" }, audio : { NULL, "rec1" }]

\* mockMultimodalProcessing, task ecosystem_health_assessment: `data` is not read
mockEcosystemProcessing(data, r1, r2) ==
    [healthScore |-> 80 + (r1 * 15) \div 100,
     biodiversityIndex |-> 72 + (r2 * 20) \div 100,
     identifiedThreats |-> << "Urban development pressure", "Air pollution" >>,
     ecosystemStrengths |-> << "Diverse plant species", "Active wildlife",
                               "Clean water sources" >>]

\* assessEcosystemHealth(imageUri, audioUri, location)
assessEcosystemHealth(capture, loc, r1, r2) ==
    LET assessment == mockEcosystemProcessing(capture, r1, r2) IN
    [overallHealth |-> assessment.healthScore,
     biodiversityIndex |-> assessment.biodiversityIndex,
     threats |-> assessment.identifiedThreats,
     strengths |-> assessment.ecosystemStrengths,
     location |-> loc]

AssessEcosystemHealth(capture, loc, r1, r2) ==
    /\ last' = IF gemmaInitialized
               THEN [op |-> "assessEcosystemHealth", outcome |-> "resolved",
                     capture |-> capture,
                     result |-> assessEcosystemHealth(capture, loc, r1, r2)]
               ELSE [op |-> "assessEcosystemHealth", outcome |-> "rejected",
                     error |-> "Gemma service not initialized"]
    /\ UNCHANGED readOnlyVars

\* the six draws of one /api/ecosystem-assessment request
AssessmentDraws == { << 0, 0, 0, 0, 0, 0 >>, << 50, 0, 99, 50, 0, 99 >>,
                     << 99, 99, 99, 99, 99, 99 >> }

\* POST /api/ecosystem-assessment: imageData and audioData are read from the
\* body and not used
apiEcosystemAssessment(capture, loc, r) ==
    [overallHealth |-> 60 + (r[1] * 30) \div 100,
     biodiversityIndex |-> 50 + (r[2] * 40) \div 100,
     indicators |-> [airQuality |-> 70 + (r[3] * 20) \div 100,
                     waterQuality |-> 80 + (r[4] * 15) \div 100,
                     soilHealth |-> 65 + (r[5] * 25) \div 100,
                     noiseLevel |-> 60 + (r[6] * 30) \div 100],
     location |-> loc]

ApiEcosystemAssessment(capture, loc, r) ==
    /\ last' = [op |-> "apiEcosystemAssessment", outcome |-> "resolved",
                capture |-> capture,
                result |-> apiEcosystemAssessment(capture, loc, r)]
    /\ UNCHANGED readOnlyVars

\* every biodiversity value an analysis of the audio alone can give
AudioOnlyBiodiversity(op) ==
    IF op = "assessEcosystemHealth"
    THEN { mockAudioProcessing(r).biodiversityScore : r \in 0..99 }
    ELSE { mockAudioAnalysis[t].biodiversityScore : t \in DOMAIN mockAudioAnalysis }

\* C15: an assessment given audio and no image takes its indicator values
\* from the audio alone: its biodiversity value is one the analysis of that
\* audio gives.
C15_AudioOnlyFusion ==
    ( /\ last.op \in { "assessEcosystemHealth", "apiEcosystemAssessment" }
      /\ last.outcome = "resolved"
      /\ last.capture.image = NULL
      /\ last.capture.audio # NULL )
    => last.result.biodiversityIndex \in AudioOnlyBiodiversity(last.op)

(***************************************************************************)
(* The demo server's /api/conservation-recommendations.                    *)
(***************************************************************************)
\* the `location` of a request body: none, or a place with a resolved name
RequestLocations ==
    { NullLocation, LocUrban, Location(15, 74, "Goa Beach"),
      Location(18, 74, "Pune, India"), Location(44, 0 - 72, "Pine Ridge") }

\* the `species` of a request body: none, or a species of the catalogue
RequestSpecies == { JsNull } \cup { speciesData[i] : i \in 1..Len(speciesData) }

\* location?.name || 'your area'
LocationNameOrDefault(loc) == IF loc.present THEN loc.name ELSE "your area"

\* locationName.toLowerCase().includes(...) for the words of the three heuristics
IsCoastal(locationName) ==
    Includes(Chars[locationName], Chars["goa"]) \/ Includes(Chars[locationName], Chars["coast"])
IsUrban(locationName) ==
    Includes(Chars[locationName], Chars["city"]) \/ Includes(Chars[locationName], Chars["urban"])
IsTropical(locationName) ==
    Includes(Chars[locationName], Chars["goa"]) \/ Includes(Chars[locationName], Chars["india"])

\* species?.category === 'bird'
IsBird(sp) == IF sp = JsNull THEN FALSE ELSE sp.category = "bird"

\* the array `recommendations` of the handler; of each description the
\* variant the conditional picks is kept, not its wording
apiRecommendations(sp, loc) ==
    LET locationName == LocationNameOrDefault(loc)
        isCoastal == IsCoastal(locationName)
        isUrban == IsUrban(locationName)
        isTropical == IsTropical(locationName)
    IN  << [action |-> "Plant Native Species",
            description |-> IF isTropical THEN "native tropical species"
                            ELSE IF IsBird(sp) THEN "native flowering plants and trees"
                            ELSE "native plants",
            impact |-> "High", difficulty |-> "Easy"],
           [action |-> IF isCoastal THEN "Coastal Conservation" ELSE "Habitat Protection",
            description |-> IF isCoastal THEN "coastal mangrove ecosystems" ELSE "buffer zones",
            impact |-> "Very High", difficulty |-> "Medium"],
           [action |-> "Water Conservation",
            description |-> IF isTropical THEN "rainwater harvesting" ELSE "rain gardens",
            impact |-> "High", difficulty |-> "Medium"],
           [action |-> IF isUrban THEN "Urban Green Spaces" ELSE "Wildlife Corridors",
            description |-> IF isUrban THEN "urban green spaces" ELSE "wildlife corridors",
            impact |-> "Very High", difficulty |-> "Medium"],
           [action |-> "Community Engagement",
            description |-> "local conservation groups",
            impact |-> "Medium", difficulty |-> "Easy"],
           [action |-> "Sustainable Practices",
            description |-> "sustainable products",
            impact |-> "High", difficulty |-> "Easy"] >>

\* POST /api/conservation-recommendations
ApiConservationRecommendations(sp, loc) ==
    /\ last' = [op |-> "apiConservationRecommendations", outcome |-> "resolved",
                species |-> sp, location |-> loc,
                recommendations |-> apiRecommendations(sp, loc),
                locationType |-> IF IsCoastal(LocationNameOrDefault(loc)) THEN "coastal"
                                 ELSE IF IsUrban(LocationNameOrDefault(loc)) THEN "urban"
                                 ELSE "terrestrial"]
    /\ UNCHANGED readOnlyVars

\* the declared impacts, from the least to the greatest
ImpactRank(impact) ==
    CASE impact = "Medium" -> 1 [] impact = "High" -> 2 [] impact = "Very High" -> 3

\* C16: the recommendations returned are at most six and come by descending
\* declared impact (Very High, then High, then Medium).
C16_OrderedByImpact ==
    last.op = "apiConservationRecommendations" =>
        /\ Len(last.recommendations) <= 6
        /\ \A i, j \in 1..Len(last.recommendations) :
               i < j => ImpactRank(last.recommendations[i].impact)
                            >= ImpactRank(last.recommendations[j].impact)

\* the actions of the request that names no location
BaseActions(sp) ==
    { apiRecommendations(sp, NullLocation)[i].action :
          i \in 1..Len(apiRecommendations(sp, NullLocation)) }

\* C20: a location only adds actions: every action recommended for the
\* species without a location is still recommended when a location is given.
C20_LocationOnlyAdds ==
    last.op = "apiConservationRecommendations" =>
        BaseActions(last.species)
            \subseteq { last.recommendations[i].action : i \in 1..Len(last.recommendations) }

\* the recommendations that address a built-up surrounding: traffic noise,
\* artificial light, green space in the city
UrbanSpecificActions ==
    { "Create quiet zones away from traffic noise",
      "Reduce light pollution to support nocturnal species",
      "Urban Green Spaces" }

AudioAnalysisData(result, clip, loc) ==
    [audio_uri |-> clip.uri, duration |-> clip.duration,
     biodiversity_score |-> result.biodiversityScore,
     environmental_health |-> result.environmentalHealth,
     location |-> loc]

\* AudioScreen.analyzeAudio: analyzeEnvironmentalAudio, then saveAudioAnalysis
AnalyzeAudio(clip, loc, r) ==
    /\ dbOpen
    /\ gemmaInitialized
    /\ TotalRows < MaxFindings
    /\ TxSaveAudioAnalysis(AudioAnalysisData(analyzeEnvironmentalAudio(clip, loc, r), clip, loc))
    /\ UNCHANGED << appVars, txQueue, screenVars >>

\* what the screen is left with when the INSERT of its save fails (SQLite
\* reports an error, executeSql calls the error callback, the promise of
\* the save rejects): the catch of the screen's save logs the error, the
\* analysis goes on to its end, no Alert is shown
ScreenAfterWriteError(op, result, logged) ==
    [op |-> op, analysisResult |-> result, showResult |-> TRUE,
     saveOutcome |-> "rejected", logged |-> logged, alert |-> "none"]

\* CameraScreen.analyzeSpecies when the INSERT of saveDiscovery fails
AnalyzeSpeciesWriteError(r1, r2, loc) ==
    /\ dbOpen
    /\ gemmaInitialized
    /\ last' = ScreenAfterWriteError("analyzeSpecies",
                                     identifySpeciesFromImage(r1, r2, loc),
                                     "Save discovery error")
    /\ UNCHANGED readOnlyVars

\* AudioScreen.analyzeAudio when the INSERT of saveAudioAnalysis fails
AnalyzeAudioWriteError(clip, loc, r) ==
    /\ dbOpen
    /\ gemmaInitialized
    /\ last' = ScreenAfterWriteError("analyzeAudio",
                                     analyzeEnvironmentalAudio(clip, loc, r),
                                     "Save audio analysis error")
    /\ UNCHANGED readOnlyVars

\* C18: when the store write fails after a successful analysis, the screen's
\* caller is told so (an error outcome is shown, not only logged) and the
\* computed result is kept.
C18_PersistenceFailureSurfaced ==
    ( /\ last.op \in { "analyzeSpecies", "analyzeAudio" }
      /\ last.saveOutcome = "rejected" )
    => /\ last.alert # "none"
       /\ last.showResult

(***************************************************************************)
(* Statistics over days.                                                   *)
(***************************************************************************)
MaxDays == 8    \* the clock is not moved past this many days

\* the app is left alone for three and a half or for four days
IdleGaps == { (RecentDays * SecondsPerDay) \div 2,
              ((RecentDays + 1) * SecondsPerDay) \div 2 }

Idle(gap) ==
    /\ now + gap <= MaxDays * SecondsPerDay
    /\ now' = now + gap
    /\ UNCHANGED << dbOpen, gemmaInitialized, gemmaModel, speciesDatabase, dbVars, txQueue, screenVars,
                    last, lastSavedId, completed, written >>

NextStats ==
    \/ Initialize
    \/ ProcessExit
    \/ Tick
    \/ \E gap \in IdleGaps : Idle(gap)
    \/ \E d \in DiscoveryInputs : SaveDiscovery(d)
    \/ GetDiscoveryStats

SpecStats == Init /\ [][NextStats]_vars

\* the sum of the counts of a byCategory map
RECURSIVE SumOfCounts(_)
SumOfCounts(counts) ==
    IF DOMAIN counts = { } THEN 0
    ELSE LET c == CHOOSE k \in DOMAIN counts : TRUE
         IN  counts[c] + SumOfCounts([k \in DOMAIN counts \ { c } |-> counts[k]])

\* the discoveries created within the 7 x 24 hours before the time t
CreatedWithinSevenDays(rows, t) ==
    Cardinality({ i \in 1..Len(rows) : t - rows[i].created_at <= 7 * 24 * 3600 })

\* C19: the recent count of getDiscoveryStats is the number of discoveries
\* created within the 7 x 24 hours before the call, and the byCategory
\* counts sum to total.
C19_RecentWithinSevenDays ==
    [][ GetDiscoveryStats =>
            /\ last'.recent = CreatedWithinSevenDays(discoveries, now)
            /\ SumOfCounts(last'.byCategory) = last'.total ]_vars

(***************************************************************************)
(* The demo server's /api/identify-species.                                *)
(***************************************************************************)
\* Object.keys(mockSpeciesDatabase)
mockSpeciesIds == << "oak_tree", "american_robin", "monarch_butterfly" >>

\* POST /api/identify-species: a random species of mockSpeciesDatabase with
\* confidence 0.75 + Math.random() * 0.2
apiIdentifySpecies(r1, r2, loc) ==
    [species |-> mockSpeciesIds[(r1 * Len(mockSpeciesIds)) \div 100 + 1],
     confidence |-> 75 + (r2 * 20) \div 100,
     location |-> loc]

ApiIdentifySpecies(r1, r2, loc) ==
    /\ last' = [op |-> "apiIdentifySpecies", outcome |-> "resolved",
                result |-> apiIdentifySpecies(r1, r2, loc)]
    /\ UNCHANGED readOnlyVars

(***************************************************************************)
(* The assistant: the catalogue search, the services of GemmaService and   *)
(* the endpoints of the demo server.                                       *)
(***************************************************************************)
NextAssistant ==
    \/ Initialize
    \/ ProcessExit
    \/ Tick
    \/ \E q \in SearchQueries : SearchSpecies(q)
    \/ \E t \in Tasks, d \in DeviceStates : SelectOptimalModel(t, d)
    \/ \E r \in RandomDraws, l \in ScreenLocations : IdentifySpeciesFromImage(r[1], r[2], l)
    \/ \E c \in AudioClips, l \in ScreenLocations, r \in UnitDraws :
          AnalyzeEnvironmentalAudio(c, l, r)
    \/ \E c \in AudioClips, l \in ScreenLocations, r1, r2 \in UnitDraws :
          ApiAnalyzeAudio(c, l, r1, r2)
    \/ \E c \in AssessmentCaptures, l \in ScreenLocations, r1, r2 \in UnitDraws :
          AssessEcosystemHealth(c, l, r1, r2)
    \/ \E c \in AssessmentCaptures, l \in ScreenLocations, r \in AssessmentDraws :
          ApiEcosystemAssessment(c, l, r)
    \/ \E s \in RequestSpecies, l \in RequestLocations : ApiConservationRecommendations(s, l)
    \/ \E r \in RandomDraws, l \in ScreenLocations : ApiIdentifySpecies(r[1], r[2], l)

SpecAssistant == Init /\ [][NextAssistant]_vars

\* every value Math.random() can take, in hundredths
AllDraws == 0..99

\* the confidence, score, index and indicator values of a result of `op`
OutputValues(op, res) ==
    CASE op \in { "identifySpeciesFromImage", "apiIdentifySpecies" } -> { res.confidence }
      [] op = "analyzeEnvironmentalAudio" -> { res.biodiversityScore }
      [] op = "apiAnalyzeAudio" -> { res.biodiversityScore, res.confidence }
      [] op = "assessEcosystemHealth" -> { res.overallHealth, res.biodiversityIndex }
      [] op = "apiEcosystemAssessment" ->
            { res.overallHealth, res.biodiversityIndex } \cup
            { res.indicators[k] : k \in DOMAIN res.indicators }

ScoredOps ==
    { "identifySpeciesFromImage", "apiIdentifySpecies", "analyzeEnvironmentalAudio",
      "apiAnalyzeAudio", "assessEcosystemHealth", "apiEcosystemAssessment" }

\* the values the call `op` can put out over every draw
ReachableOutputs(op) ==
    CASE op = "identifySpeciesFromImage" ->
            { mockSpeciesIdentification(0, r).confidence : r \in AllDraws }
      [] op = "apiIdentifySpecies" ->
            { apiIdentifySpecies(0, r, NullLocation).confidence : r \in AllDraws }
      [] op = "analyzeEnvironmentalAudio" ->
            { mockAudioProcessing(r).biodiversityScore : r \in AllDraws }
      [] op = "apiAnalyzeAudio" ->
            UNION { OutputValues(op, apiAnalyzeAudio(c, NullLocation, r, r)) :
                        c \in AudioClips, r \in AllDraws }
      [] op = "assessEcosystemHealth" ->
            UNION { OutputValues(op, assessEcosystemHealth(JsNull, NullLocation, r, r)) :
                        r \in AllDraws }
      [] op = "apiEcosystemAssessment" ->
            UNION { OutputValues(op, apiEcosystemAssessment(JsNull, NullLocation,
                                                            << r, r, r, r, r, r >>)) :
                        r \in AllDraws }

\* C25: the confidence, biodiversityScore, overallHealth, biodiversityIndex
\* and indicator values of the result a processing call or a demo endpoint
\* resolved with are within [0,1], and so is every such value the call can
\* give over the draws 0.00 .. 0.99.
C25_OutputsInUnit ==
    ( last.op \in ScoredOps /\ last.outcome = "resolved" )
    => /\ \A x \in OutputValues(last.op, last.result) : InUnit(x)
       /\ \A x \in ReachableOutputs(last.op) : InUnit(x)

\* the demo server assessed an ecosystem with every draw at its top
C25_Witness ==
    /\ last.op = "apiEcosystemAssessment"
    /\ last.outcome = "resolved"
    /\ last.result.overallHealth = 89
    /\ last.result.indicators.waterQuality = 94

\* the camera screen and the audio screen: a capture is analysed and saved
NextScreens ==
    \/ Initialize
    \/ ProcessExit
    \/ Tick
    \/ \E r \in RandomDraws, l \in ScreenLocations : AnalyzeSpecies(r[1], r[2], l)
    \/ \E r \in RandomDraws, l \in ScreenLocations : AnalyzeSpeciesWriteError(r[1], r[2], l)
    \/ \E c \in AudioClips, l \in ScreenLocations, r \in UnitDraws : AnalyzeAudio(c, l, r)
    \/ \E c \in AudioClips, l \in ScreenLocations, r \in UnitDraws :
          AnalyzeAudioWriteError(c, l, r)

SpecScreens == Init /\ [][NextScreens]_vars

(***************************************************************************)
(* A request, await by await.  A handler of a screen runs until it awaits  *)
(* a call, and goes on when the call settles; `threads` holds the handlers *)
(* that are waiting, `trace` the calls they made and how each settled.     *)
(* The calls answered outside the repository (the camera, the recorder,    *)
(* the media library, the model behind GemmaService.model, SQLite) resolve *)
(* or reject as the environment decides.                                   *)
(***************************************************************************)
MaxRequests == 2    \* handlers started by taps, the two screens together
MaxTaps == 3        \* presses of the record button, the audio screen alone
MaxSeconds == 1     \* the recording timer stops counting here

\* a handler waiting for the call `pc`; handle and duration are the values
\* of `recording` and `recordingDuration` its closure captured
Thread(id, fn, pc, handle, duration) ==
    [id |-> id, fn |-> fn, pc |-> pc, handle |-> handle, duration |-> duration,
     result |-> Void]

\* history: the call `call` of request `id` was made, resolved or rejected;
\* for an Alert, `what` is its title
Ev(id, call, what) == [req |-> id, call |-> call, what |-> what]

\* the call awaited after `pc` in the list `calls` ("end": none, the handler returns)
NextCall(calls, pc) ==
    LET i == CHOOSE k \in 1..Len(calls) : calls[k] = pc
    IN  IF i = Len(calls) THEN "end" ELSE calls[i + 1]

\* a mutant: a call that rejected is made again
ProceedRetrying(t, calls, outcome, result, alert) ==
    LET next == IF outcome = "resolved" THEN NextCall(calls, t.pc) ELSE t.pc IN
    /\ threads' = IF next = "end" THEN threads \ { t }
                  ELSE (threads \ { t }) \cup { [t EXCEPT !.pc = next, !.result = result] }
    /\ trace' = trace \o << Ev(t.id, t.pc, outcome) >>
                      \o (IF next = "end" THEN << >> ELSE << Ev(t.id, next, "called") >>)
                      \o (IF alert = "none" THEN << >> ELSE << Ev(t.id, "Alert", alert) >>)
\* the awaited call of t settled with `outcome`: on "resolved" t goes on to
\* the next call of `calls`, or returns after the last one; on "rejected"
\* the catch around the call shows `alert` ("none": it only logs) and t returns
Proceed(t, calls, outcome, result, alert) ==
    LET next == IF outcome = "resolved" THEN NextCall(calls, t.pc) ELSE "end" IN
    /\ threads' = IF next = "end" THEN threads \ { t }
                  ELSE (threads \ { t }) \cup { [t EXCEPT !.pc = next, !.result = result] }
    /\ trace' = trace \o << Ev(t.id, t.pc, outcome) >>
                      \o (IF next = "end" THEN << >> ELSE << Ev(t.id, next, "called") >>)
                      \o (IF alert = "none" THEN << >> ELSE << Ev(t.id, "Alert", alert) >>)

Outcome(ok) == IF ok THEN "resolved" ELSE "rejected"

\* what the steps of the screens leave alone besides the store
serviceVars == << appVars, txQueue >>

(***************************************************************************)
(* CameraScreen: takePicture, analyzeSpecies, saveDiscovery.               *)
(***************************************************************************)
\* a mutant: the discovery is saved before the recommendations are asked for
PictureCallsSaveFirst ==
    << "takePictureAsync", "saveToLibraryAsync", "processMultimodal",
       "saveDiscovery", "generateText" >>
\* the calls a picture request awaits, in the order of takePicture,
\* analyzeSpecies, identifySpeciesFromImage and saveDiscovery
PictureCalls ==
    << "takePictureAsync", "saveToLibraryAsync", "processMultimodal",
       "generateText", "saveDiscovery" >>

\* takePicture: catch (error) { Alert 'Error'; setIsAnalyzing(false) }
takePictureCatch(cam) == [cam EXCEPT !.alert = "Error", !.isAnalyzing = FALSE]

\* analyzeSpecies: catch (error) { Alert 'Analysis Failed' } finally { setIsAnalyzing(false) }
analyzeSpeciesCatch(cam) ==
    [cam EXCEPT !.alert = "Analysis Failed", !.isAnalyzing = FALSE]

\* the capture button is pressed (disabled while isAnalyzing; the result
\* modal covers it while showResult): takePicture up to its first await
TakePicture ==
    /\ dbOpen
    /\ gemmaInitialized
    /\ ~camera.isAnalyzing
    /\ ~camera.showResult
    /\ requests' = requests + 1
    /\ camera' = [camera EXCEPT !.isAnalyzing = TRUE]
    /\ threads' = threads \cup { Thread(requests + 1, "takePicture", PictureCalls[1], 0, 0) }
    /\ trace' = trace \o << Ev(requests + 1, PictureCalls[1], "called") >>
    /\ UNCHANGED << serviceVars, dbVars, last, lastSavedId, completed, written, audio >>

\* cameraRef.current.takePictureAsync settles
TakePictureAsync(t, ok) ==
    /\ t \in threads /\ t.fn = "takePicture" /\ t.pc = "takePictureAsync"
    /\ camera' = IF ok THEN camera ELSE takePictureCatch(camera)
    /\ Proceed(t, PictureCalls, Outcome(ok), Void, IF ok THEN "none" ELSE "Error")
    /\ UNCHANGED << serviceVars, dbVars, last, lastSavedId, completed, written, audio,
                    requests >>

\* MediaLibrary.saveToLibraryAsync settles; analyzeSpecies then calls
\* identifySpeciesFromImage, which throws when the service is not
\* initialized and hands the image to model.processMultimodal otherwise
SaveToLibraryAsync(t, ok) ==
    /\ t \in threads /\ t.fn = "takePicture" /\ t.pc = "saveToLibraryAsync"
    /\ IF ~ok
       THEN /\ camera' = takePictureCatch(camera)
            /\ Proceed(t, PictureCalls, "rejected", Void, "Error")
       ELSE IF ~gemmaInitialized
       THEN /\ camera' = analyzeSpeciesCatch(camera)
            /\ threads' = threads \ { t }
            /\ trace' = trace \o << Ev(t.id, t.pc, "resolved"),
                                    Ev(t.id, "identifySpeciesFromImage", "rejected"),
                                    Ev(t.id, "Alert", "Analysis Failed") >>
       ELSE /\ camera' = camera
            /\ Proceed(t, PictureCalls, "resolved", Void, "none")
    /\ UNCHANGED << serviceVars, dbVars, last, lastSavedId, completed, written, audio,
                    requests >>

\* model.processMultimodal settles for a picture: identifySpeciesFromImage
\* goes on to generateConservationRecommendations, or its catch rethrows
\* and the catch of analyzeSpecies shows the Alert
ProcessImage(t, ok, r1, r2) ==
    /\ t \in threads /\ t.fn = "takePicture" /\ t.pc = "processMultimodal"
    /\ camera' = IF ok THEN camera ELSE analyzeSpeciesCatch(camera)
    /\ Proceed(t, PictureCalls, Outcome(ok), mockSpeciesIdentification(r1, r2),
               IF ok THEN "none" ELSE "Analysis Failed")
    /\ UNCHANGED << serviceVars, dbVars, last, lastSavedId, completed, written, audio,
                    requests >>

\* model.generateText settles: identifySpeciesFromImage returns, analyzeSpecies
\* shows the result and calls saveDiscovery
GenerateText(t, ok) ==
    /\ t \in threads /\ t.fn = "takePicture" /\ t.pc = "generateText"
    /\ camera' = IF ok THEN [camera EXCEPT !.showResult = TRUE]
                 ELSE analyzeSpeciesCatch(camera)
    /\ Proceed(t, PictureCalls, Outcome(ok), t.result,
               IF ok THEN "none" ELSE "Analysis Failed")
    /\ UNCHANGED << serviceVars, dbVars, last, lastSavedId, completed, written, audio,
                    requests >>

\* DatabaseService.saveDiscovery settles: the row is written, or the INSERT
\* fails and the catch of CameraScreen.saveDiscovery logs it; either way
\* analyzeSpecies reaches its finally
DatabaseSaveDiscovery(t, ok) ==
    /\ t \in threads /\ t.fn = "takePicture" /\ t.pc = "saveDiscovery"
    /\ IF ok
       THEN /\ TotalRows < MaxFindings
            /\ TxSaveDiscovery(CameraDiscoveryData(t.result.species, t.result.confidence,
                                                   NullLocation))
       ELSE /\ last' = [op |-> "saveDiscovery", outcome |-> "rejected",
                        error |-> "write failed"]
            /\ UNCHANGED << dbVars, lastSavedId, completed, written >>
    /\ camera' = IF NextCall(PictureCalls, t.pc) = "end"
                 THEN [camera EXCEPT !.isAnalyzing = FALSE] ELSE camera
    /\ Proceed(t, PictureCalls, IF ok THEN "resolved" ELSE "logged", t.result, "none")
    /\ UNCHANGED << serviceVars, audio, requests >>

\* closeResult of the camera screen
CloseCameraResult ==
    /\ camera.showResult
    /\ camera' = [camera EXCEPT !.showResult = FALSE]
    /\ UNCHANGED << serviceVars, dbVars, last, lastSavedId, completed, written, audio,
                    threads, trace, requests >>

(***************************************************************************)
(* AudioScreen: startRecording, the timer, stopRecording, analyzeAudio,    *)
(* saveAudioAnalysis.                                                      *)
(***************************************************************************)
\* the calls startRecording awaits
StartCalls == << "setAudioModeAsync", "createAsync" >>

\* the calls stopRecording awaits, analyzeAudio and saveAudioAnalysis included
StopCalls == << "stopAndUnloadAsync", "processMultimodal", "saveAudioAnalysis" >>

\* the record button can be pressed: disabled={isAnalyzing}, and the result
\* modal covers it while showResult
RecordButtonEnabled ==
    /\ dbOpen
    /\ gemmaInitialized
    /\ ~audio.isAnalyzing
    /\ ~audio.showResult

\* onPress with isRecording false: startRecording up to its first await
StartRecording ==
    /\ RecordButtonEnabled
    /\ ~audio.isRecording
    /\ requests' = requests + 1
    /\ threads' = threads \cup { Thread(requests + 1, "startRecording", StartCalls[1], 0, 0) }
    /\ trace' = trace \o << Ev(requests + 1, StartCalls[1], "called") >>
    /\ UNCHANGED << serviceVars, dbVars, last, lastSavedId, completed, written, camera,
                    audio >>

\* Audio.setAudioModeAsync settles
SetAudioModeAsync(t, ok) ==
    /\ t \in threads /\ t.fn = "startRecording" /\ t.pc = "setAudioModeAsync"
    /\ audio' = IF ok THEN audio ELSE [audio EXCEPT !.alert = "Error"]
    /\ Proceed(t, StartCalls, Outcome(ok), Void, IF ok THEN "none" ELSE "Error")
    /\ UNCHANGED << serviceVars, dbVars, last, lastSavedId, completed, written, camera,
                    requests >>

\* Audio.Recording.createAsync settles: setRecording(newRecording),
\* setIsRecording(true); the effect on [isRecording] starts the timer, which
\* sets recordingDuration to 0, when isRecording changed
CreateAsync(t, ok) ==
    /\ t \in threads /\ t.fn = "startRecording" /\ t.pc = "createAsync"
    /\ audio' = IF ok
                THEN [audio EXCEPT !.recording = t.id, !.isRecording = TRUE,
                                   !.recordingDuration =
                                       IF audio.isRecording THEN @ ELSE 0]
                ELSE [audio EXCEPT !.alert = "Error"]
    /\ Proceed(t, StartCalls, Outcome(ok), Void, IF ok THEN "none" ELSE "Error")
    /\ UNCHANGED << serviceVars, dbVars, last, lastSavedId, completed, written, camera,
                    requests >>

\* the interval of startRecordingTimer fires: setRecordingDuration(prev => prev + 1)
RecordingTimer ==
    /\ audio.isRecording
    /\ audio.recordingDuration < MaxSeconds
    /\ audio' = [audio EXCEPT !.recordingDuration = @ + 1]
    /\ UNCHANGED << serviceVars, dbVars, last, lastSavedId, completed, written, camera,
                    threads, trace, requests >>

\* onPress with isRecording true: stopRecording up to its first await, with
\* the recording and the recordingDuration of the render the press came from
StopRecording ==
    /\ RecordButtonEnabled
    /\ audio.isRecording
    /\ requests' = requests + 1
    /\ audio' = [audio EXCEPT !.isRecording = FALSE]
    /\ IF audio.recording = 0
       THEN UNCHANGED << threads, trace >>
       ELSE /\ threads' = threads \cup { Thread(requests + 1, "stopRecording", StopCalls[1],
                                                audio.recording, audio.recordingDuration) }
            /\ trace' = trace \o << Ev(requests + 1, StopCalls[1], "called") >>
    /\ UNCHANGED << serviceVars, dbVars, last, lastSavedId, completed, written, camera >>

\* the clip a stopped recording leaves: recording.getURI() and the duration
\* stopRecording hands to analyzeAudio
RecordedClip(t) == [uri |-> "rec1", duration |-> t.duration]

\* analyzeAudio: catch (error) { Alert 'Analysis Failed' } finally { setIsAnalyzing(false) }
analyzeAudioCatch(au) == [au EXCEPT !.alert = "Analysis Failed", !.isAnalyzing = FALSE]

\* recording.stopAndUnloadAsync settles: setAudioUri(uri), setRecording(null),
\* then analyzeAudio: setIsAnalyzing(true) and analyzeEnvironmentalAudio,
\* which throws when the service is not initialized and hands the clip to
\* model.processMultimodal otherwise
StopAndUnloadAsync(t, ok) ==
    /\ t \in threads /\ t.fn = "stopRecording" /\ t.pc = "stopAndUnloadAsync"
    /\ IF ~ok
       THEN /\ audio' = [audio EXCEPT !.alert = "Error"]
            /\ Proceed(t, StopCalls, "rejected", Void, "Error")
       ELSE IF ~gemmaInitialized
       THEN /\ audio' = analyzeAudioCatch([audio EXCEPT !.audioUri = RecordedClip(t).uri,
                                                        !.recording = 0])
            /\ threads' = threads \ { t }
            /\ trace' = trace \o << Ev(t.id, t.pc, "resolved"),
                                    Ev(t.id, "analyzeEnvironmentalAudio", "rejected"),
                                    Ev(t.id, "Alert", "Analysis Failed") >>
       ELSE /\ audio' = [audio EXCEPT !.audioUri = RecordedClip(t).uri,
                                      !.recording = 0, !.isAnalyzing = TRUE]
            /\ Proceed(t, StopCalls, "resolved", Void, "none")
    /\ UNCHANGED << serviceVars, dbVars, last, lastSavedId, completed, written, camera,
                    requests >>

\* model.processMultimodal settles for a clip: analyzeEnvironmentalAudio
\* returns, analyzeAudio shows the result and calls saveAudioAnalysis; or the
\* catch of analyzeEnvironmentalAudio rethrows and the catch of analyzeAudio
\* shows the Alert
ProcessAudio(t, ok, r) ==
    /\ t \in threads /\ t.fn = "stopRecording" /\ t.pc = "processMultimodal"
    /\ audio' = IF ok THEN [audio EXCEPT !.showResult = TRUE]
                ELSE analyzeAudioCatch(audio)
    /\ Proceed(t, StopCalls, Outcome(ok),
               analyzeEnvironmentalAudio(RecordedClip(t), NullLocation, r),
               IF ok THEN "none" ELSE "Analysis Failed")
    /\ UNCHANGED << serviceVars, dbVars, last, lastSavedId, completed, written, camera,
                    requests >>

\* DatabaseService.saveAudioAnalysis settles: the row is written, or the
\* INSERT fails and the catch of AudioScreen.saveAudioAnalysis logs it;
\* either way analyzeAudio reaches its finally
DatabaseSaveAudioAnalysis(t, ok) ==
    /\ t \in threads /\ t.fn = "stopRecording" /\ t.pc = "saveAudioAnalysis"
    /\ IF ok
       THEN /\ TotalRows < MaxFindings
            /\ TxSaveAudioAnalysis(AudioAnalysisData(t.result, RecordedClip(t), NullLocation))
       ELSE /\ last' = [op |-> "saveAudioAnalysis", outcome |-> "rejected",
                        error |-> "write failed"]
            /\ UNCHANGED << dbVars, lastSavedId, completed, written >>
    /\ audio' = [audio EXCEPT !.isAnalyzing = FALSE]
    /\ Proceed(t, StopCalls, IF ok THEN "resolved" ELSE "logged", t.result, "none")
    /\ UNCHANGED << serviceVars, camera, requests >>

\* closeResult of the audio screen
CloseAudioResult ==
    /\ audio.showResult
    /\ audio' = [audio EXCEPT !.showResult = FALSE, !.audioUri = NULL,
                              !.recordingDuration = 0]
    /\ UNCHANGED << serviceVars, dbVars, last, lastSavedId, completed, written, camera,
                    threads, trace, requests >>

(***************************************************************************)
(* The requests of the two screens, in one session of the app.             *)
(***************************************************************************)
NextRequests ==
    \/ Initialize
    \/ requests < MaxRequests /\ TakePicture
    \/ \E t \in threads, ok \in BOOLEAN : TakePictureAsync(t, ok)
    \/ \E t \in threads, ok \in BOOLEAN : SaveToLibraryAsync(t, ok)
    \/ \E t \in threads, ok \in BOOLEAN, r \in RandomDraws : ProcessImage(t, ok, r[1], r[2])
    \/ \E t \in threads, ok \in BOOLEAN : GenerateText(t, ok)
    \/ \E t \in threads, ok \in BOOLEAN : DatabaseSaveDiscovery(t, ok)
    \/ CloseCameraResult
    \/ requests < MaxRequests /\ StartRecording
    \/ \E t \in threads, ok \in BOOLEAN : SetAudioModeAsync(t, ok)
    \/ \E t \in threads, ok \in BOOLEAN : CreateAsync(t, ok)
    \/ RecordingTimer
    \/ requests < MaxRequests /\ StopRecording
    \/ \E t \in threads, ok \in BOOLEAN : StopAndUnloadAsync(t, ok)
    \/ \E t \in threads, ok \in BOOLEAN, r \in UnitDraws : ProcessAudio(t, ok, r)
    \/ \E t \in threads, ok \in BOOLEAN : DatabaseSaveAudioAnalysis(t, ok)
    \/ CloseAudioResult

SpecRequests == Init /\ [][NextRequests]_vars

\* the audio screen alone
NextAudio ==
    \/ Initialize
    \/ requests < MaxTaps /\ StartRecording
    \/ \E t \in threads, ok \in BOOLEAN : SetAudioModeAsync(t, ok)
    \/ \E t \in threads, ok \in BOOLEAN : CreateAsync(t, ok)
    \/ RecordingTimer
    \/ requests < MaxTaps /\ StopRecording
    \/ \E t \in threads, ok \in BOOLEAN : StopAndUnloadAsync(t, ok)
    \/ \E t \in threads, ok \in BOOLEAN, r \in UnitDraws : ProcessAudio(t, ok, r)
    \/ \E t \in threads, ok \in BOOLEAN : DatabaseSaveAudioAnalysis(t, ok)
    \/ CloseAudioResult

SpecAudio == Init /\ [][NextAudio]_vars

(***************************************************************************)
(* Claims about the stages of a request.                                   *)
(***************************************************************************)
SaveCalls == { "saveDiscovery", "saveAudioAnalysis" }
ModelCalls == { "processMultimodal", "generateText" }

\* the event e is in the trace before position i
Before(i, e) == \E j \in 1..(i - 1) : trace[j] = e

\* the positions of the trace where `call` of some request did `what`
Events(calls, what) ==
    { i \in 1..Len(trace) : trace[i].call \in calls /\ trace[i].what = what }

\* C21: a request hands its finding to the store only after its own
\* modality pipeline resolved and, for a picture, after its own
\* recommendations resolved, which were asked for after the pipeline
\* resolved (a clip gets its recommendations from the pipeline itself); it
\* hands over at most once, the store holds one row per save that resolved,
\* and the save is the last call of the request.
C21_StageOrder ==
    /\ \A i \in Events(SaveCalls, "called") :
          LET q == trace[i].req IN
          /\ Before(i, Ev(q, "processMultimodal", "resolved"))
          /\ trace[i].call = "saveDiscovery" =>
                \E k \in 1..(i - 1) :
                    /\ trace[k] = Ev(q, "generateText", "called")
                    /\ Before(k, Ev(q, "processMultimodal", "resolved"))
                    /\ trace[i - 1] = Ev(q, "generateText", "resolved")
          /\ \A j \in Events(SaveCalls, "called") : trace[j].req = q => j = i
          /\ \A j \in (i + 1)..Len(trace) :
                trace[j].req = q => trace[j].call = trace[i].call
    /\ Len(discoveries) = Cardinality(Events({ "saveDiscovery" }, "resolved"))
    /\ Len(audio_analysis) = Cardinality(Events({ "saveAudioAnalysis" }, "resolved"))

\* two picture requests went through every stage and each left its row
C21_Witness ==
    /\ requests = 2
    /\ threads = { }
    /\ Len(discoveries) = 2
    /\ \A q \in 1..2 : \E i \in Events({ "saveDiscovery" }, "resolved") : trace[i].req = q

\* the calls whose rejection fails the request: the model's two, and the
\* service's own when it is not initialized
ServiceCalls ==
    ModelCalls \cup { "identifySpeciesFromImage", "analyzeEnvironmentalAudio" }

\* C22: when the model pipeline or the recommendation step of a request
\* rejects, the screen shows the Alert 'Analysis Failed' at once, the request
\* makes no further call (the model is not invoked again, nothing is handed
\* to the store, before or after), and its handler is gone.
C22_FailedIsTerminal ==
    \A i \in Events(ServiceCalls, "rejected") :
        LET q == trace[i].req IN
        /\ i < Len(trace)
        /\ trace[i + 1] = Ev(q, "Alert", "Analysis Failed")
        /\ \A j \in (i + 2)..Len(trace) : trace[j].req # q
        /\ \A j \in 1..Len(trace) : trace[j].req = q => trace[j].call \notin SaveCalls
        /\ \A t \in threads : t.id # q

\* one request failed in the pipeline, the next in the recommendations
C22_Witness ==
    /\ \E i \in 1..Len(trace) : trace[i] = Ev(1, "processMultimodal", "rejected")
    /\ \E i \in 1..Len(trace) : trace[i] = Ev(2, "generateText", "rejected")
    /\ threads = { }
    /\ discoveries = << >>

(***************************************************************************)
(* Termination of a request.  The handlers of the app run when the call    *)
(* they await settles; the camera, the media library, the recorder and     *)
(* SQLite answer every call.  Nothing makes the model behind               *)
(* GemmaService.model answer: processMultimodal and generateText carry no  *)
(* fairness.                                                               *)
(***************************************************************************)
SpecRequestsFair ==
    /\ SpecRequests
    /\ WF_vars(\E t \in threads, ok \in BOOLEAN : TakePictureAsync(t, ok))
    /\ WF_vars(\E t \in threads, ok \in BOOLEAN : SaveToLibraryAsync(t, ok))
    /\ WF_vars(\E t \in threads, ok \in BOOLEAN : DatabaseSaveDiscovery(t, ok))
    /\ WF_vars(\E t \in threads, ok \in BOOLEAN : SetAudioModeAsync(t, ok))
    /\ WF_vars(\E t \in threads, ok \in BOOLEAN : CreateAsync(t, ok))
    /\ WF_vars(\E t \in threads, ok \in BOOLEAN : StopAndUnloadAsync(t, ok))
    /\ WF_vars(\E t \in threads, ok \in BOOLEAN : DatabaseSaveAudioAnalysis(t, ok))

\* C23: every request ends, also when the model never answers: a screen
\* whose isAnalyzing is true gets it back to false, and every handler that
\* waits for the model leaves that wait.
C23_RequestsTerminate ==
    /\ camera.isAnalyzing ~> ~camera.isAnalyzing
    /\ audio.isAnalyzing ~> ~audio.isAnalyzing
    /\ (\E t \in threads : t.pc \in ModelCalls) ~> (\A t \in threads : t.pc \notin ModelCalls)

(***************************************************************************)
(* The catalogue under the operations that are not catalogue updates.      *)
(***************************************************************************)
\* one session after another: the saves, the preference writes and the
\* processing calls of GemmaService
NextCatalogue ==
    \/ Initialize
    \/ ProcessExit
    \/ \E d \in DiscoveryInputs : SaveDiscovery(d)
    \/ \E a \in AudioInputs : SaveAudioAnalysis(a)
    \/ \E e \in AssessmentInputs : SaveEcosystemAssessment(e)
    \/ \E k \in WrittenKeys, v \in PrefValues : SetUserPreference(k, v)
    \/ \E r \in RandomDraws : IdentifySpeciesFromImage(r[1], r[2], NullLocation)
    \/ \E c \in AudioClips, r \in UnitDraws : AnalyzeEnvironmentalAudio(c, NullLocation, r)
    \/ \E c \in AssessmentCaptures, r \in UnitDraws :
          AssessEcosystemHealth(c, NullLocation, r, r)

SpecCatalogue == Init /\ [][NextCatalogue]_vars

\* C24: once the app has started, a step that is neither the start nor the
\* end of the process (a save, a preference write, a processing call)
\* leaves table species and the species map of GemmaService as they were.
C24_CatalogueUnchanged ==
    [][ (dbOpen /\ dbOpen') =>
            /\ species' = species
            /\ speciesDatabase' = speciesDatabase ]_vars

\* a discovery naming a species the catalogue does not have was saved, a
\* preference was written and a processing call resolved last, and both
\* catalogues are what the start-up loaded
C24_Witness ==
    /\ \E i \in 1..Len(discoveries) : discoveries[i].species_id \notin DOMAIN species
    /\ written # << >>
    /\ last.op \in { "identifySpeciesFromImage", "analyzeEnvironmentalAudio",
                     "assessEcosystemHealth" }
    /\ last.outcome = "resolved"
    /\ species = SeedSpecies(<< >>, 1)
    /\ speciesDatabase = speciesData

(***************************************************************************)
(* Claims about the audio screen.                                          *)
(***************************************************************************)
\* C26: every row of audio_analysis the audio screen stored has a duration
\* above 0 seconds, a recording stopped before the first tick of the timer
\* included.
C26_DurationPositive ==
    \A i \in 1..Len(audio_analysis) : audio_analysis[i].duration > 0

\* C29: the audio screen is never recording and analyzing at once, and
\* while isRecording is true the recording handle it holds is not null.
C29_RecordingExclusive ==
    /\ ~(audio.isRecording /\ audio.isAnalyzing)
    /\ audio.isRecording => audio.recording # 0

(***************************************************************************)
(* The location of a discovery, through saveDiscovery and getDiscoveries.  *)
(***************************************************************************)
\* a place on the equator, and one on the prime meridian
LocEquator == Location(0, 1, "Quito")
LocMeridian == Location(1, 0, "Greenwich")

\* one discovery per kind of location: complete, complete with a zero
\* coordinate, none, partial
LocationInputs ==
    { [species_id |-> "oak_tree", species_name |-> "Oak Tree",
       scientific_name |-> "Quercus", category |-> "tree", confidence |-> 90,
       image_uri |-> "img1", location |-> loc,
       conservation_status |-> "Least Concern", threats |-> << >>] :
      loc \in { LocUrban, LocEquator, LocMeridian, NullLocation, LocPartial } }

NextLocation ==
    \/ Initialize
    \/ ProcessExit
    \/ \E d \in LocationInputs : SaveDiscovery(d)
    \/ \E l \in Limits, o \in Offsets : GetDiscoveries(l, o)

SpecLocation == Init /\ [][NextLocation]_vars

\* the location has its three parts
CompleteLocation(loc) ==
    loc.present /\ loc.latitude # NullReal /\ loc.longitude # NullReal /\ loc.name # NULL

\* the finding the save that resolved with `id` was given
SavedDiscovery(id) ==
    (CHOOSE c \in completed : c.table = "discoveries" /\ c.id = id).data

\* C27: getDiscoveries returns each discovery with the location it was saved
\* with when that location was complete, a zero latitude or longitude
\* included, and with location null when it was saved without one; a save
\* given a partial location is rejected.
C27_LocationRoundTrip ==
    /\ last.op = "getDiscoveries" =>
          \A i \in 1..Len(last.rows) :
              LET saved == SavedDiscovery(last.rows[i].row.id).location IN
              /\ CompleteLocation(saved) => last.rows[i].location = saved
              /\ ~saved.present => last.rows[i].location = NullLocation
    /\ ( /\ last.op = "saveDiscovery"
         /\ last.data.location.present
         /\ ~CompleteLocation(last.data.location) )
       => last.outcome = "rejected"

(***************************************************************************)
(* GemmaService.initialize, await by await, and the calls made of the      *)
(* service before, while and after it runs.                                *)
(***************************************************************************)
MaxCalls == 3       \* calls of GemmaService, initialize included

\* App.initializeApp, first half: DatabaseService.initialize alone
InitializeDatabase ==
    /\ ~dbOpen
    /\ dbOpen' = TRUE
    /\ species' = SeedSpecies(species, 1)
    /\ user_preferences' = SeedPreferences(user_preferences, 1)
    /\ last' = Void
    /\ UNCHANGED << gemmaInitialized, gemmaModel, speciesDatabase, now, discoveries,
                    audio_analysis, ecosystem_assessments, conservation_actions,
                    sqlite_sequence, txQueue, screenVars, lastSavedId, completed,
                    written >>

\* the calls initialize awaits
InitCalls == << "tf.ready", "loadGemmaModel", "loadConservationData" >>

\* App.initializeApp, second half: GemmaService.initialize up to its first await
GemmaInitialize ==
    /\ dbOpen
    /\ \A t \in threads : t.fn # "initialize"
    /\ requests' = requests + 1
    /\ threads' = threads \cup { Thread(requests + 1, "initialize", InitCalls[1], 0, 0) }
    /\ trace' = trace \o << Ev(requests + 1, InitCalls[1], "called") >>
    /\ UNCHANGED << serviceVars, dbVars, last, lastSavedId, completed, written, camera,
                    audio >>

\* tf.ready() settles: initialize goes on to loadGemmaModel, or its catch
\* throws 'Gemma 3n initialization failed'
TfReady(t, ok) ==
    /\ t \in threads /\ t.fn = "initialize" /\ t.pc = "tf.ready"
    /\ Proceed(t, InitCalls, Outcome(ok), Void, "none")
    /\ last' = IF ok THEN last
               ELSE [op |-> "initialize", outcome |-> "rejected",
                     error |-> "Gemma 3n initialization failed"]
    /\ UNCHANGED << serviceVars, dbVars, lastSavedId, completed, written, camera, audio,
                    requests >>

\* the timer of loadGemmaModel fires: this.model is set
LoadGemmaModel(t) ==
    /\ t \in threads /\ t.fn = "initialize" /\ t.pc = "loadGemmaModel"
    /\ gemmaModel' = TRUE
    /\ Proceed(t, InitCalls, "resolved", Void, "none")
    /\ UNCHANGED << dbOpen, gemmaInitialized, speciesDatabase, now, txQueue, dbVars, last,
                    lastSavedId, completed, written, camera, audio, requests >>

\* loadConservationData fills the species map and resolves: isInitialized = true
LoadConservationData(t) ==
    /\ t \in threads /\ t.fn = "initialize" /\ t.pc = "loadConservationData"
    /\ speciesDatabase' = speciesData
    /\ gemmaInitialized' = TRUE
    /\ Proceed(t, InitCalls, "resolved", Void, "none")
    /\ last' = [op |-> "initialize", outcome |-> "resolved"]
    /\ UNCHANGED << dbOpen, gemmaModel, now, txQueue, dbVars, lastSavedId, completed,
                    written, camera, audio, requests >>

\* the three processing calls of the service
ServiceOps ==
    { "identifySpeciesFromImage", "analyzeEnvironmentalAudio", "assessEcosystemHealth" }

\* the calls of the model a processing call awaits
CallsOf(op) ==
    IF op = "identifySpeciesFromImage" THEN << "processMultimodal", "generateText" >>
    ELSE << "processMultimodal" >>

\* a mutant: the guard looks at this.model
NotInitializedModel == ~gemmaModel
\* if (!this.isInitialized)
NotInitialized == ~gemmaInitialized

\* a processing call is made of the service: throw new Error('Gemma service
\* not initialized'), or the input is handed to model.processMultimodal
CallService(op) ==
    /\ requests' = requests + 1
    /\ IF NotInitialized
       THEN /\ last' = [op |-> op, outcome |-> "rejected",
                        error |-> "Gemma service not initialized"]
            /\ trace' = trace \o << Ev(requests + 1, op, "called"),
                                    Ev(requests + 1, op, "rejected") >>
            /\ UNCHANGED threads
       ELSE /\ threads' = threads \cup
                  { Thread(requests + 1, op, CallsOf(op)[1], 0, 0) }
            /\ trace' = trace \o << Ev(requests + 1, op, "called"),
                                    Ev(requests + 1, CallsOf(op)[1], "called") >>
            /\ UNCHANGED last
    /\ UNCHANGED << serviceVars, dbVars, lastSavedId, completed, written, camera, audio >>

\* what the processing call `op` returns for the draws r1 and r2
ServiceResult(op, r1, r2) ==
    CASE op = "identifySpeciesFromImage" -> identifySpeciesFromImage(r1, r2, NullLocation)
      [] op = "analyzeEnvironmentalAudio" ->
            analyzeEnvironmentalAudio([uri |-> "rec1", duration |-> 45], NullLocation, r1)
      [] op = "assessEcosystemHealth" ->
            assessEcosystemHealth([image |-> "img1", audio |-> "rec1"], NullLocation, r1, r2)

\* the model settles the call a processing call awaits: the call goes on,
\* returns its result, or its catch rethrows
ModelSettles(t, ok, r1, r2) ==
    /\ t \in threads /\ t.fn \in ServiceOps /\ t.pc \in ModelCalls
    /\ Proceed(t, CallsOf(t.fn), Outcome(ok),
               IF t.pc = "processMultimodal" THEN ServiceResult(t.fn, r1, r2) ELSE t.result,
               "none")
    /\ last' = IF ~ok
               THEN [op |-> t.fn, outcome |-> "rejected", error |-> "failed"]
               ELSE IF NextCall(CallsOf(t.fn), t.pc) = "end"
               THEN [op |-> t.fn, outcome |-> "resolved",
                     result |-> IF t.pc = "processMultimodal"
                                THEN ServiceResult(t.fn, r1, r2) ELSE t.result]
               ELSE last
    /\ UNCHANGED << serviceVars, dbVars, lastSavedId, completed, written, camera, audio,
                    requests >>

NextGemma ==
    \/ InitializeDatabase
    \/ ProcessExit
    \/ requests < MaxCalls /\ GemmaInitialize
    \/ \E t \in threads, ok \in BOOLEAN : TfReady(t, ok)
    \/ \E t \in threads : LoadGemmaModel(t)
    \/ \E t \in threads : LoadConservationData(t)
    \/ \E op \in ServiceOps : requests < MaxCalls /\ CallService(op)
    \/ \E t \in threads, ok \in BOOLEAN, r \in RandomDraws : ModelSettles(t, ok, r[1], r[2])

SpecGemma == Init /\ [][NextGemma]_vars

\* the step is a processing call being made: the trace grows by the call's
\* "called" event first
ServiceCalled(op) ==
    /\ Len(trace') > Len(trace)
    /\ trace'[Len(trace) + 1] = Ev(requests + 1, op, "called")

\* C28: a processing call made while isInitialized is false is rejected with
\* 'Gemma service not initialized' and makes no call of the model;
\* isInitialized is true only with the model loaded and the species map
\* filled; a step in which tf.ready() rejects leaves isInitialized as it was.
C28_InitializationGuard ==
    [][ /\ \A op \in ServiceOps :
              (ServiceCalled(op) /\ ~gemmaInitialized) =>
                  /\ last' = [op |-> op, outcome |-> "rejected",
                              error |-> "Gemma service not initialized"]
                  /\ trace' = trace \o << Ev(requests + 1, op, "called"),
                                          Ev(requests + 1, op, "rejected") >>
                  /\ threads' = threads
        /\ gemmaInitialized' => (gemmaModel' /\ speciesDatabase' = speciesData)
        /\ ( Len(trace') > Len(trace)
             /\ trace'[Len(trace) + 1].call \in { "tf.ready", "loadGemmaModel" }
             /\ trace'[Len(trace) + 1].what = "rejected" )
           => (gemmaInitialized' = gemmaInitialized) ]_vars

\* initialize failed at tf.ready(), and a processing call made after that,
\* with the service still not initialized, was rejected by the guard
C28_Witness ==
    /\ ~gemmaInitialized
    /\ last.op \in ServiceOps
    /\ last.outcome = "rejected"
    /\ last.error = "Gemma service not initialized"
    /\ \E i \in 1..Len(trace) : trace[i].call = "tf.ready" /\ trace[i].what = "rejected"
    /\ trace[Len(trace)].what = "rejected"
    /\ trace[Len(trace)].call \in ServiceOps

(***************************************************************************)
(* SettingsScreen: loadSettings.                                           *)
(***************************************************************************)
\* useState({...}): the preferences the settings screen shows, each with
\* the default it declares
SettingsDefaults ==
    [notifications_enabled |-> TRUE, location_sharing |-> TRUE, offline_mode |-> TRUE,
     conservation_reminders |-> TRUE, auto_save_discoveries |-> TRUE,
     high_accuracy_mode |-> FALSE]

\* the toggles pressed in the model
ToggledKeys == { "notifications_enabled", "auto_save_discoveries", "high_accuracy_mode" }

\* loadSettings: for each key of the state, prefs[key] = (await
\* getUserPreference(key)) === 'true', then setPreferences(prefs)
loadSettings(prefs) ==
    [key \in DOMAIN SettingsDefaults |-> getUserPreference(prefs, key) = "true"]

\* the settings screen is mounted: loadSettings runs to its end
LoadSettings ==
    /\ dbOpen
    /\ last' = [op |-> "loadSettings", preferences |-> loadSettings(user_preferences)]
    /\ UNCHANGED readOnlyVars

NextSettings ==
    \/ Initialize
    \/ ProcessExit
    \/ Tick
    \/ \E k \in ToggledKeys, v \in PrefValues : SetUserPreference(k, v)
    \/ LoadSettings

SpecSettings == Init /\ [][NextSettings]_vars

\* C30: after loadSettings each preference of the screen is the stored
\* value when its key is stored, and the default the screen declares when
\* the key was never written (auto_save_discoveries true, high_accuracy_mode
\* false on a fresh database).
C30_SettingsDefaults ==
    last.op = "loadSettings" =>
        \A key \in DOMAIN SettingsDefaults :
            last.preferences[key] =
                IF \E r \in user_preferences : r.key = key
                THEN getUserPreference(user_preferences, key) = "true"
                ELSE SettingsDefaults[key]

====
